---- MODULE Spec2Model ----
(***************************************************************************)
(* A model of the gitignore rule synthesis engine of how_to_do.py:         *)
(* pattern deduplication, the two-file catalog merge, the pattern matcher, *)
(* the project scan and the synthesis of the needed rules.                 *)
(*                                                                         *)
(* A Python str is a sequence of one-character strings, so that split,     *)
(* strip, basename, replace and the glob match are computed character by   *)
(* character.  A Python list is a sequence; a dict is a sequence of        *)
(* entries in insertion order (Python dicts keep insertion order).         *)
(***************************************************************************)
EXTENDS Integers, Sequences, FiniteSets, TLC

VARIABLES
    pc,          \* which call has been made: "start", then the name of the step done
    patterns,    \* deduplicate_patterns: the argument list
    deduped,     \* deduplicate_patterns(patterns): [raised, value]
    deduped2,    \* deduplicate_patterns applied to the value of deduped
    pattern,     \* match_pattern: the pattern argument
    files,       \* match_pattern: the files argument, a set of paths
    matched,     \* match_pattern(pattern, files)
    distributor, \* the distributor's how_to_do_gitignore.toml: [status, sections]
    user,        \* the user's how_to_do_gitignore.toml: [status, sections]
    merged,      \* merge_gitignore_toml_files(distributor, user): [raised, value]
    loaded,      \* load_gitignore_rules(): [raised, value]
    remerged,    \* merge_gitignore_toml_files(distributor, a user's file holding merged)
    project_path, \* the project root: "dir", "missing" or "unreadable"
    tree,        \* the entries below the project root: a set of [path, type]
    project_files, \* scan_project_files(project_path): a set of paths
    analysis,    \* analyze_project_for_gitignore(project_path): [raised, value]
    now,         \* datetime.now(), in minutes
    merge_cache, \* _merge_cache: a dict from category to a reference of a list
    cache_timestamp, \* _cache_timestamp: a time, or NoTime for None
    heap,        \* the list objects: heap[ref] is the content of the list ref
    result,      \* the dict merge_gitignore_rules returned last, as the caller holds it
    computations, \* how many times the files have been parsed and merged
    computed_at, \* when the result now to be served was computed, or NoTime
    computed,    \* the content of that result
    hit,         \* the last call of merge_gitignore_rules read no file
    data,        \* validate_merged_toml_structure: the data argument, [type, items]
    valid,       \* validate_merged_toml_structure(data)
    target,      \* the file at file_path: [exists, content], the content as stored
    backup,      \* the file at file_path + '.backup': [exists, content]
    perms,       \* what open() is allowed: [dir, read, write, bwrite]
    returned,    \* what safe_write_file returned last
    written,     \* the last call of safe_write_file wrote the file at file_path
    writes,      \* how many times safe_write_file has been called
    handler,     \* each request handler's place in its call and its local variables
    stamped,     \* the rules stored by the call that set _cache_timestamp last
    stdin,       \* the lines the server has not read yet
    stdout,      \* the responses the server has printed
    config_file, \* how_to_do.json: "ok", "missing", "no_tools", "no_prompt" or "bad_template"
    config,      \* _config: "none" for None, or the configuration loaded
    mode         \* how main() was entered: "script" or "imported"

vars == <<pc, patterns, deduped, deduped2, pattern, files, matched,
          distributor, user, merged, loaded, remerged, project_path, tree, project_files, analysis,
          now, merge_cache, cache_timestamp, heap, result, computations,
          computed_at, computed, hit, data, valid,
          target, backup, perms, returned, written, writes, handler, stamped,
          stdin, stdout, config_file, config, mode>>

\* The variables of each component, left alone by the steps of the others.
dedupVars == <<patterns, deduped, deduped2>>
matchVars == <<pattern, files, matched>>
mergeVars == <<distributor, user, merged, loaded, remerged>>
synthVars == <<project_path, tree, project_files, analysis>>
cacheVars == <<now, merge_cache, cache_timestamp, heap, result, computations,
               computed_at, computed, hit>>
validateVars == <<data, valid>>
writeVars == <<target, backup, perms, returned, written, writes>>
threadVars == <<handler, stamped>>
serverVars == <<stdin, stdout, config_file, config, mode>>

\* The variables of the components that follow the cache.
restVars == <<validateVars, writeVars, threadVars, serverVars>>

(***************************************************************************)
(* Characters and strings                                                  *)
(***************************************************************************)

\* The code point of a character (Python compares str by code points).
Ord(c) ==
    CASE c = "\t" -> 9
      [] c = " "  -> 32
      [] c = "#"  -> 35
      [] c = "*"  -> 42
      [] c = "."  -> 46
      [] c = "/"  -> 47
      [] c = "0"  -> 48
      [] c = "1"  -> 49
      [] c = "2"  -> 50
      [] c = "3"  -> 51
      [] c = "4"  -> 52
      [] c = "5"  -> 53
      [] c = "6"  -> 54
      [] c = "7"  -> 55
      [] c = "8"  -> 56
      [] c = "9"  -> 57
      [] c = "?"  -> 63
      [] c = "\\" -> 92
      [] c = "a"  -> 97
      [] c = "b"  -> 98
      [] c = "c"  -> 99
      [] c = "e"  -> 101
      [] c = "n"  -> 110
      [] c = "p"  -> 112
      [] c = "s"  -> 115
      [] c = "v"  -> 118
      [] c = "y"  -> 121

\* s < t for two str values: lexicographic on code points, a proper prefix first.
RECURSIVE StrLess(_, _)
StrLess(s, t) ==
    IF t = <<>> THEN FALSE
    ELSE IF s = <<>> THEN TRUE
    ELSE IF Head(s) = Head(t) THEN StrLess(Tail(s), Tail(t))
    ELSE Ord(Head(s)) < Ord(Head(t))

\* The characters str.strip() removes.
Whitespace == {" ", "\t", "\n", "\r"}

\* s.split('#')[0]: the text before the first '#'.
RECURSIVE SplitHash0(_)
SplitHash0(s) ==
    IF s = <<>> \/ Head(s) = "#" THEN <<>>
    ELSE <<Head(s)>> \o SplitHash0(Tail(s))

RECURSIVE LStrip(_)
LStrip(s) ==
    IF s # <<>> /\ Head(s) \in Whitespace THEN LStrip(Tail(s)) ELSE s

RECURSIVE RStrip(_)
RStrip(s) ==
    IF s # <<>> /\ s[Len(s)] \in Whitespace
    THEN RStrip(SubSeq(s, 1, Len(s) - 1))
    ELSE s

\* s.strip()
Strip(s) == RStrip(LStrip(s))

\* clean_pattern = pattern.split('#')[0].strip()
CleanPattern(pat) == Strip(SplitHash0(pat))

(***************************************************************************)
(* Results of calls: a returned value, or a raised exception               *)
(***************************************************************************)

Ok(v) == [raised |-> FALSE, value |-> v]

Raised == [raised |-> TRUE, value |-> <<>>]

\* A list element that is not a str (an integer of the TOML file).  Every str
\* of the model is a sequence of one-character strings, so this differs from all.
NonStr == <<"<int>">>

IsStr(x) == x # NonStr

(***************************************************************************)
(* deduplicate_patterns                                                    *)
(***************************************************************************)

\* The list length up to which the single-pass branch is taken.
SmallListLimit == 100

\* DedupStep with the stripped key appended in place of the pattern's own text.
DedupStepKeepsCleanText(st, pat) ==
    LET clean_pattern == CleanPattern(pat)
    IN  IF clean_pattern # <<>> /\ clean_pattern \notin st.seen
        THEN [seen |-> st.seen \cup {clean_pattern}, result |-> Append(st.result, clean_pattern)]
        ELSE st

\* DedupStep without the test for an empty key.
DedupStepKeepsEmpty(st, pat) ==
    LET clean_pattern == CleanPattern(pat)
    IN  IF clean_pattern \notin st.seen
        THEN [seen |-> st.seen \cup {clean_pattern}, result |-> Append(st.result, pat)]
        ELSE st

\* DedupStep with the pattern put in front of the result.
DedupStepPrepends(st, pat) ==
    LET clean_pattern == CleanPattern(pat)
    IN  IF clean_pattern # <<>> /\ clean_pattern \notin st.seen
        THEN [seen |-> st.seen \cup {clean_pattern}, result |-> <<pat>> \o st.result]
        ELSE st

\* One iteration of the single-pass loop of the small branch; st is (seen, result).
DedupStep(st, pat) ==
    LET clean_pattern == CleanPattern(pat)
    IN  IF clean_pattern # <<>> /\ clean_pattern \notin st.seen
        THEN [seen |-> st.seen \cup {clean_pattern}, result |-> Append(st.result, pat)]
        ELSE st

\* for pattern in patterns[lo..hi], in order.  The range is halved, and the
\* first half is evaluated before the second is entered (the test on left),
\* so that the evaluation nests to a depth of log2 of the list length; the
\* iterations are those of the loop, in the loop's order.
RECURSIVE DedupLoop(_, _, _, _)
DedupLoop(ps, lo, hi, st) ==
    IF lo > hi THEN st
    ELSE IF lo = hi THEN DedupStep(st, ps[lo])
    ELSE LET mid == (lo + hi) \div 2
             left == DedupLoop(ps, lo, mid, st)
         IN  IF Len(left.result) >= 0 THEN DedupLoop(ps, mid + 1, hi, left) ELSE st

\* pattern_tuples: (clean_pattern, pattern) for every pattern with a non-empty
\* key, in the order of the patterns.
RECURSIVE PatternTuples(_, _, _)
PatternTuples(ps, lo, hi) ==
    IF lo > hi THEN <<>>
    ELSE IF lo = hi
         THEN LET clean_pattern == CleanPattern(ps[lo])
              IN  IF clean_pattern # <<>> THEN <<<<clean_pattern, ps[lo]>>>> ELSE <<>>
    ELSE LET mid == (lo + hi) \div 2
         IN  PatternTuples(ps, lo, mid) \o PatternTuples(ps, mid + 1, hi)

\* Where the tuple with key k goes in the sorted list: behind every tuple whose
\* key is not greater (list.sort is stable, so equal keys keep their input
\* order).  A binary search of sorted[lo..hi-1].
RECURSIVE InsertAt(_, _, _, _)
InsertAt(sorted, k, lo, hi) ==
    IF lo >= hi THEN lo
    ELSE LET mid == (lo + hi) \div 2
         IN  IF StrLess(k, sorted[mid][1])
             THEN InsertAt(sorted, k, lo, mid)
             ELSE InsertAt(sorted, k, mid + 1, hi)

InsertSorted(sorted, t) ==
    LET j == InsertAt(sorted, t[1], 1, Len(sorted) + 1)
    IN  SubSeq(sorted, 1, j - 1) \o <<t>> \o SubSeq(sorted, j, Len(sorted))

\* pattern_tuples.sort(key=lambda x: x[0]).  A stable sort has one result, so
\* this insertion sort of ts[lo..hi] into sorted computes what list.sort
\* computes.  The range is halved as in DedupLoop.
RECURSIVE SortByKey(_, _, _, _)
SortByKey(ts, lo, hi, sorted) ==
    IF lo > hi THEN sorted
    ELSE IF lo = hi THEN InsertSorted(sorted, ts[lo])
    ELSE LET mid == (lo + hi) \div 2
             left == SortByKey(ts, lo, mid, sorted)
         IN  IF Len(left) >= 0 THEN SortByKey(ts, mid + 1, hi, left) ELSE sorted

\* One iteration of the loop of the large branch over the sorted tuples.
SortedDedupStep(st, t) ==
    IF t[1] \notin st.seen
    THEN [seen |-> st.seen \cup {t[1]}, result |-> Append(st.result, t[2])]
    ELSE st

\* for clean_pattern, original_pattern in pattern_tuples[lo..hi], in order.
RECURSIVE SortedDedupLoop(_, _, _, _)
SortedDedupLoop(ts, lo, hi, st) ==
    IF lo > hi THEN st
    ELSE IF lo = hi THEN SortedDedupStep(st, ts[lo])
    ELSE LET mid == (lo + hi) \div 2
             left == SortedDedupLoop(ts, lo, mid, st)
         IN  IF Len(left.result) >= 0 THEN SortedDedupLoop(ts, mid + 1, hi, left) ELSE st

\* seen = set(); result = []
EmptyLoopState == [seen |-> {}, result |-> <<>>]

\* deduplicate_patterns(patterns).  pattern.split raises on an element that is
\* not a str; both branches visit every element.
deduplicate_patterns(ps) ==
    IF ps = <<>> THEN Ok(<<>>)
    ELSE IF \E i \in 1..Len(ps) : ~IsStr(ps[i]) THEN Raised
    ELSE IF Len(ps) <= SmallListLimit
         THEN Ok(DedupLoop(ps, 1, Len(ps), EmptyLoopState).result)
         ELSE LET unsorted == PatternTuples(ps, 1, Len(ps))
                  pattern_tuples == SortByKey(unsorted, 1, Len(unsorted), <<>>)
              IN  Ok(SortedDedupLoop(pattern_tuples, 1, Len(pattern_tuples), EmptyLoopState).result)

(***************************************************************************)
(* Inputs of deduplicate_patterns                                          *)
(***************************************************************************)

\* The variable's value before the call is made.
NotCalled == Ok(<<>>)

\* The characters of the patterns given to deduplicate_patterns.
DedupChars == {"a", "b", " ", "#"}

\* Every str of length n over the characters A.
RECURSIVE StrsOfLen(_, _)
StrsOfLen(A, n) ==
    IF n = 0 THEN {<<>>}
    ELSE {<<c>> \o s : c \in A, s \in StrsOfLen(A, n - 1)}

\* The size of a pattern list: its elements and their characters.
\* Every list of patterns over DedupChars of size exactly n.
RECURSIVE ListsOfSize(_)
ListsOfSize(n) ==
    IF n = 0 THEN {<<>>}
    ELSE UNION {{<<p>> \o rest : p \in StrsOfLen(DedupChars, k), rest \in ListsOfSize(n - 1 - k)}
                  : k \in 0..(n - 1)}

\* Bound: the size (elements plus characters) of a short pattern list.
MaxListSize == 6

\* Bound: the size of the list in front of the filler of a long pattern list.
MaxHeadSize == 3

DigitChar(d) ==
    CASE d = 0 -> "0" [] d = 1 -> "1" [] d = 2 -> "2" [] d = 3 -> "3" [] d = 4 -> "4"
      [] d = 5 -> "5" [] d = 6 -> "6" [] d = 7 -> "7" [] d = 8 -> "8" [] d = 9 -> "9"

\* The i-th pattern of a filler of distinct patterns: "*.000", "*.001", ...
FillerPattern(i) ==
    <<"*", ".", DigitChar((i \div 100) % 10), DigitChar((i \div 10) % 10), DigitChar(i % 10)>>

\* n more patterns: n times "a", or n distinct patterns, one with a comment.
Filler(kind, n) ==
    IF kind = "same" THEN [i \in 1..n |-> <<"a">>]
    ELSE [i \in 1..n |-> IF i = 2 THEN FillerPattern(i) \o <<" ", "#", "c">> ELSE FillerPattern(i)]

\* The lists around the limit of the small branch: a head, then a filler up to
\* SmallListLimit or SmallListLimit + 1 elements.
LongLists ==
    {head \o Filler(kind, total - Len(head)) :
        head \in UNION {ListsOfSize(n) : n \in 0..MaxHeadSize},
        kind \in {"same", "distinct"},
        total \in {SmallListLimit, SmallListLimit + 1}}

DedupInputs == UNION {ListsOfSize(n) : n \in 0..MaxListSize} \cup LongLists

(***************************************************************************)
(* Specification of deduplicate_patterns: one call, then a call on its     *)
(* result                                                                  *)
(***************************************************************************)

\* A TOML file that does not exist.
MissingFile == [status |-> "missing", sections |-> <<>>]

\* The variables of the merge when it is not the component under check.
MergeIdle ==
    /\ distributor = MissingFile
    /\ user = MissingFile
    /\ merged = NotCalled
    /\ loaded = NotCalled
    /\ remerged = NotCalled

\* _cache_timestamp = None
NoTime == -1

\* The variables of the cache when it is not the component under check: the
\* module as loaded, _merge_cache = {} and _cache_timestamp = None.
CacheIdle ==
    /\ now = 0
    /\ merge_cache = <<>>
    /\ cache_timestamp = NoTime
    /\ heap = <<>>
    /\ result = NotCalled
    /\ computations = 0
    /\ computed_at = NoTime
    /\ computed = <<>>
    /\ hit = FALSE

\* The variables of the analysis when it is not the component under check.
SynthIdle == project_path = "dir" /\ tree = {} /\ project_files = {} /\ analysis = NotCalled

\* The variables of the matcher when it is not the component under check.
MatchIdle == pattern = <<>> /\ files = {} /\ matched = FALSE

\* A value that is not a dict: None.
NoData == [type |-> "none", items |-> <<>>]

\* The variables of the validation when it is not the component under check.
ValidateIdle == data = NoData /\ valid = FALSE

\* A file that does not exist.
NoFile == [exists |-> FALSE, content |-> <<>>]

\* The variables of the file writer when it is not the component under check.
WriteIdle ==
    /\ target = NoFile
    /\ backup = NoFile
    /\ perms = [dir |-> TRUE, read |-> TRUE, write |-> TRUE, bwrite |-> TRUE]
    /\ returned = FALSE
    /\ written = FALSE
    /\ writes = 0

\* The request handlers that call the cache.
Handlers == {"h1", "h2"}

\* A handler outside every call.
IdleHandler ==
    [at |-> "idle", rules |-> NotCalled, expect |-> <<>>, ret |-> NotCalled,
     hit |-> FALSE, missed |-> FALSE, calls |-> 0]

\* The variables of the handlers when they are not the component under check.
ThreadIdle == handler = [h \in Handlers |-> IdleHandler] /\ stamped = <<>>

\* The variables of the server when it is not the component under check.
ServerIdle ==
    /\ stdin = <<>>
    /\ stdout = <<>>
    /\ config_file = "ok"
    /\ config = "none"
    /\ mode = "imported"

\* The variables of the components that follow the cache, when none of them
\* is under check.
RestIdle == ValidateIdle /\ WriteIdle /\ ThreadIdle /\ ServerIdle

InitDedup ==
    /\ pc = "start"
    /\ patterns \in DedupInputs
    /\ deduped = NotCalled
    /\ deduped2 = NotCalled
    /\ MatchIdle
    /\ RestIdle
    /\ MergeIdle
    /\ SynthIdle
    /\ CacheIdle

Deduplicate ==
    /\ pc = "start"
    /\ deduped' = deduplicate_patterns(patterns)
    /\ pc' = "deduplicated"
    /\ UNCHANGED <<patterns, deduped2, matchVars, restVars, mergeVars, synthVars, cacheVars>>

DeduplicateAgain ==
    /\ pc = "deduplicated"
    /\ ~deduped.raised
    /\ deduped2' = deduplicate_patterns(deduped.value)
    /\ pc' = "deduplicated twice"
    /\ UNCHANGED <<patterns, deduped, matchVars, restVars, mergeVars, synthVars, cacheVars>>

NextDedup == Deduplicate \/ DeduplicateAgain

SpecDedup == InitDedup /\ [][NextDedup]_vars

(***************************************************************************)
(* match_pattern                                                           *)
(***************************************************************************)

\* fnmatch.fnmatch(name, pat) for patterns of literals, '*' and '?': '*' is any
\* run of characters and '?' any one character, the separator included (the
\* pattern is compiled with DOTALL and must match the whole name).  On POSIX
\* os.path.normcase changes nothing.  The patterns of the model hold no '['.
RECURSIVE fnmatch(_, _)
fnmatch(name, pat) ==
    IF pat = <<>> THEN name = <<>>
    ELSE IF Head(pat) = "*"
         THEN fnmatch(name, Tail(pat)) \/ (name # <<>> /\ fnmatch(Tail(name), pat))
    ELSE /\ name # <<>>
         /\ (Head(pat) = "?" \/ Head(pat) = Head(name))
         /\ fnmatch(Tail(name), Tail(pat))

\* file_path.replace('\\', '/')
NormalizePath(file_path) ==
    [i \in 1..Len(file_path) |-> IF file_path[i] = "\\" THEN "/" ELSE file_path[i]]

\* The index of the last '/' of s, 0 when there is none.
RECURSIVE LastSlash(_, _)
LastSlash(s, i) ==
    IF i = 0 THEN 0 ELSE IF s[i] = "/" THEN i ELSE LastSlash(s, i - 1)

\* os.path.basename(s): the text behind the last '/'.
basename(s) == SubSeq(s, LastSlash(s, Len(s)) + 1, Len(s))

\* s.endswith('/')
EndsWithSlash(s) == s # <<>> /\ s[Len(s)] = "/"

\* s[:-1]
DropLast(s) == SubSeq(s, 1, Len(s) - 1)

\* The body of the loop of match_pattern without its last branch.
MatchPathNoFileBranch(pat, file_path) ==
    LET normalized_path == NormalizePath(file_path)
        dir_name == DropLast(normalized_path)
        pattern_without_slash == DropLast(pat)
    IN  \/ fnmatch(normalized_path, pat)
        \/ fnmatch(basename(normalized_path), pat)
        \/ /\ EndsWithSlash(normalized_path)
           /\ \/ fnmatch(dir_name, pat)
              \/ fnmatch(basename(dir_name), pat)
        \/ /\ EndsWithSlash(pat)
           /\ EndsWithSlash(normalized_path)
           /\ \/ fnmatch(dir_name, pattern_without_slash)
              \/ fnmatch(basename(dir_name), pattern_without_slash)

\* The body of the loop of match_pattern without the basename comparison.
MatchPathNoBasename(pat, file_path) ==
    LET normalized_path == NormalizePath(file_path)
        dir_name == DropLast(normalized_path)
        pattern_without_slash == DropLast(pat)
    IN  \/ fnmatch(normalized_path, pat)
        \/ /\ EndsWithSlash(normalized_path)
           /\ \/ fnmatch(dir_name, pat)
              \/ fnmatch(basename(dir_name), pat)
        \/ /\ EndsWithSlash(pat)
           /\ IF EndsWithSlash(normalized_path)
              THEN \/ fnmatch(dir_name, pattern_without_slash)
                   \/ fnmatch(basename(dir_name), pattern_without_slash)
              ELSE fnmatch(basename(normalized_path), pattern_without_slash)

\* The body of the loop of match_pattern: whether file_path makes it return True.
MatchPath(pat, file_path) ==
    LET normalized_path == NormalizePath(file_path)
        dir_name == DropLast(normalized_path)
        pattern_without_slash == DropLast(pat)
    IN  \/ fnmatch(normalized_path, pat)
        \/ fnmatch(basename(normalized_path), pat)
        \/ /\ EndsWithSlash(normalized_path)
           /\ \/ fnmatch(dir_name, pat)
              \/ fnmatch(basename(dir_name), pat)
        \/ /\ EndsWithSlash(pat)
           /\ IF EndsWithSlash(normalized_path)
              THEN \/ fnmatch(dir_name, pattern_without_slash)
                   \/ fnmatch(basename(dir_name), pattern_without_slash)
              ELSE fnmatch(basename(normalized_path), pattern_without_slash)

\* match_pattern(pattern, files): True at the first path that matches, False
\* when the loop ends.
match_pattern(pat, fs) == \E file_path \in fs : MatchPath(pat, file_path)

(***************************************************************************)
(* Inputs of match_pattern                                                 *)
(***************************************************************************)

\* The characters of the patterns and of the paths given to match_pattern.
MatchPatternChars == {"a", "*", "?", "/"}

MatchPathChars == {"a", "b", "/", "\\"}

\* Every set of non-empty paths over MatchPathChars with n characters in all.
RECURSIVE PathSetsOfSize(_)
PathSetsOfSize(n) ==
    IF n = 0 THEN {{}}
    ELSE UNION {UNION {{rest \cup {p} : rest \in {r \in PathSetsOfSize(n - k) : p \notin r}}
                          : p \in StrsOfLen(MatchPathChars, k)}
                  : k \in 1..n}

\* Bound: the characters of the pattern and of the paths together.
MaxMatchSize == 5

(***************************************************************************)
(* Specification of match_pattern: one call                                *)
(***************************************************************************)

\* The variables of deduplicate_patterns when it is not the component under check.
DedupIdle == patterns = <<>> /\ deduped = NotCalled /\ deduped2 = NotCalled

InitMatch ==
    /\ pc = "start"
    /\ \E k \in 0..MaxMatchSize :
          /\ pattern \in StrsOfLen(MatchPatternChars, k)
          /\ files \in UNION {PathSetsOfSize(n) : n \in 0..(MaxMatchSize - k)}
    /\ matched = FALSE
    /\ DedupIdle
    /\ RestIdle
    /\ MergeIdle
    /\ SynthIdle
    /\ CacheIdle

Match ==
    /\ pc = "start"
    /\ matched' = match_pattern(pattern, files)
    /\ pc' = "matched"
    /\ UNCHANGED <<pattern, files, dedupVars, restVars, mergeVars, synthVars, cacheVars>>

NextMatch == Match

SpecMatch == InitMatch /\ [][NextMatch]_vars

(***************************************************************************)
(* The catalog files and merge_gitignore_toml_files                        *)
(*                                                                         *)
(* A parsed TOML file is the sequence of its top-level entries in file     *)
(* order.  The kind of an entry says what its 'patterns' is: "list" (an     *)
(* array, of str or other elements), "str" (a string in place of the       *)
(* array; patterns is then the one-element sequence of that string) or     *)
(* "none" (the entry is no table with a 'patterns' key).                   *)
(* A dict of rules is a sequence of such entries in insertion order.       *)
(***************************************************************************)

Entry(n, k, ps) == [name |-> n, kind |-> k, patterns |-> ps]

\* The index of the entry of dict d with the key n, 0 when there is none.
RECURSIVE IndexOf(_, _, _)
IndexOf(d, n, i) ==
    IF i > Len(d) THEN 0 ELSE IF d[i].name = n THEN i ELSE IndexOf(d, n, i + 1)

\* d[n] = v on a dict: an existing key keeps its place, a new key goes last.
DictSet(d, entry) ==
    LET i == IndexOf(d, entry.name, 1)
    IN  IF i = 0 THEN Append(d, entry) ELSE [d EXCEPT ![i] = entry]

\* SectionRules with every array deduplicated on the way.
RECURSIVE SectionRulesDeduplicated(_, _, _)
SectionRulesDeduplicated(sections, i, rules) ==
    IF i > Len(sections) THEN rules
    ELSE IF sections[i].kind = "list" /\ \A j \in 1..Len(sections[i].patterns) : IsStr(sections[i].patterns[j])
         THEN SectionRulesDeduplicated(sections, i + 1,
                  Append(rules, [sections[i] EXCEPT !.patterns = deduplicate_patterns(@).value]))
         ELSE IF sections[i].kind # "none"
              THEN SectionRulesDeduplicated(sections, i + 1, Append(rules, sections[i]))
              ELSE SectionRulesDeduplicated(sections, i + 1, rules)

\* The loop that builds a dict of rules from the sections of a file: every
\* section that is a table with 'patterns', with that value as it is.
RECURSIVE SectionRules(_, _, _)
SectionRules(sections, i, rules) ==
    IF i > Len(sections) THEN rules
    ELSE IF sections[i].kind # "none"
         THEN SectionRules(sections, i + 1, DictSet(rules, sections[i]))
         ELSE SectionRules(sections, i + 1, rules)

\* Iterating a str gives its characters, each a str of length one.
CharsOf(str) == [i \in 1..Len(str) |-> <<str[i]>>]

\* MergeUserSection with the two lists of a shared category joined as they are.
MergeUserSectionNoDedup(m, section) ==
    IF m.raised \/ section.kind = "none" THEN m
    ELSE LET i == IndexOf(m.value, section.name, 1)
         IN  IF i = 0 THEN Ok(Append(m.value, section))
             ELSE IF section.kind # m.value[i].kind THEN Raised
             ELSE Ok([m.value EXCEPT ![i] =
                         Entry(section.name, section.kind,
                               section.patterns \o m.value[i].patterns)])

\* MergeUserSection with the key of a shared category deleted and set anew,
\* which puts it last.
MergeUserSectionMovesToEnd(m, section) ==
    IF m.raised \/ section.kind = "none" THEN m
    ELSE LET i == IndexOf(m.value, section.name, 1)
         IN  IF i = 0 THEN Ok(Append(m.value, section))
             ELSE IF section.kind # m.value[i].kind THEN Raised
             ELSE LET merged_patterns ==
                          deduplicate_patterns(
                              IF section.kind = "str"
                              THEN CharsOf(section.patterns[1] \o m.value[i].patterns[1])
                              ELSE section.patterns \o m.value[i].patterns)
                  IN  IF merged_patterns.raised THEN Raised
                      ELSE Ok(Append(SelectSeq(m.value, LAMBDA x : x.name # section.name),
                                     Entry(section.name, "list", merged_patterns.value)))

\* One iteration of the loop over the user's sections; m is [raised, value],
\* raised once a statement of the loop has raised.
MergeUserSection(m, section) ==
    IF m.raised \/ section.kind = "none" THEN m
    ELSE LET i == IndexOf(m.value, section.name, 1)
         IN  IF i = 0 THEN Ok(Append(m.value, section))
             ELSE IF section.kind # m.value[i].kind THEN Raised
             ELSE LET merged_patterns ==
                          deduplicate_patterns(
                              IF section.kind = "str"
                              THEN CharsOf(section.patterns[1] \o m.value[i].patterns[1])
                              ELSE section.patterns \o m.value[i].patterns)
                  IN  IF merged_patterns.raised THEN Raised
                      ELSE Ok([m.value EXCEPT ![i] =
                                  Entry(section.name, "list", merged_patterns.value)])

RECURSIVE MergeUserLoop(_, _, _)
MergeUserLoop(sections, i, m) ==
    IF i > Len(sections) THEN m
    ELSE MergeUserLoop(sections, i + 1, MergeUserSection(m, sections[i]))

\* not category_name.strip()
IsBlank(n) == n \in {"", " "}

\* A key that is not a str, and isinstance(category_name, str).
NonStrName == "<int>"

IsStrName(n) == n # NonStrName

\* A value that is a dict with these items.
DictValue(items) == [type |-> "dict", items |-> items]

\* validate_merged_toml_structure that checks the category names alone.
ValidateNamesOnly(d) ==
    /\ d.type = "dict"
    /\ \A i \in 1..Len(d.items) : IsStrName(d.items[i].name) /\ ~IsBlank(d.items[i].name)

\* validate_merged_toml_structure that takes a blank pattern for an error.
ValidateRejectsBlankPatterns(d) ==
    /\ d.type = "dict"
    /\ \A i \in 1..Len(d.items) :
          /\ IsStrName(d.items[i].name) /\ ~IsBlank(d.items[i].name)
          /\ d.items[i].kind = "list"
          /\ \A j \in 1..Len(d.items[i].patterns) :
                /\ IsStr(d.items[i].patterns[j])
                /\ Strip(d.items[i].patterns[j]) # <<>>

\* validate_merged_toml_structure(data): False at the first check that fails,
\* True when the loops come to their end; a blank pattern is logged and passed.
validate_merged_toml_structure(d) ==
    /\ d.type = "dict"
    /\ \A i \in 1..Len(d.items) :
          /\ IsStrName(d.items[i].name) /\ ~IsBlank(d.items[i].name)
          /\ d.items[i].kind = "list"
          /\ \A j \in 1..Len(d.items[i].patterns) : IsStr(d.items[i].patterns[j])

\* MergeFallback that gives an empty dict when the distributor's file cannot
\* be read.
MergeFallbackEmpty(dist) ==
    IF dist.status # "ok" THEN Ok(<<>>)
    ELSE Ok(SectionRules(dist.sections, 1, <<>>))

\* The except branch of merge_gitignore_toml_files: the distributor's rules
\* alone, read again from the file.
MergeFallback(dist) ==
    IF dist.status # "ok" THEN Raised
    ELSE Ok(SectionRules(dist.sections, 1, <<>>))

\* merge_gitignore_toml_files where a user's file that cannot be parsed is an
\* error of the call.
MergeRaisesOnMalformedUser(dist, usr) ==
    IF dist.status # "ok" \/ usr.status = "malformed" THEN Raised
    ELSE LET user_data == IF usr.status = "ok" THEN usr.sections ELSE <<>>
             from_distributor == Ok(SectionRules(dist.sections, 1, <<>>))
             merged_data == MergeUserLoop(user_data, 1, from_distributor)
         IN  IF merged_data.raised \/ ~validate_merged_toml_structure(DictValue(merged_data.value))
             THEN MergeFallback(dist)
             ELSE merged_data

\* merge_gitignore_toml_files(distributor_path, user_path)
merge_gitignore_toml_files(dist, usr) ==
    IF dist.status # "ok" THEN MergeFallback(dist)
    ELSE LET user_data == IF usr.status = "ok" THEN usr.sections ELSE <<>>
             from_distributor == Ok(SectionRules(dist.sections, 1, <<>>))
             merged_data == MergeUserLoop(user_data, 1, from_distributor)
         IN  IF merged_data.raised \/ ~validate_merged_toml_structure(DictValue(merged_data.value))
             THEN MergeFallback(dist)
             ELSE merged_data

\* load_gitignore_rules(): the merge when the user's file exists, the
\* distributor's rules otherwise; every exception becomes a RuntimeError.
load_gitignore_rules(dist, usr) ==
    IF usr.status # "missing" THEN merge_gitignore_toml_files(dist, usr)
    ELSE IF dist.status # "ok" THEN Raised
    ELSE Ok(SectionRules(dist.sections, 1, <<>>))

(***************************************************************************)
(* Inputs of the merge                                                     *)
(***************************************************************************)

\* Category names.
CategoryNames == {"Python", "Java", "Custom"}

\* "*.py", "*.py # c" (the same rule with a comment) and "venv/".
PatPy == <<"*", ".", "p", "y">>

PatPyComment == <<"*", ".", "p", "y", " ", "#", " ", "c">>

PatVenv == <<"v", "e", "n", "v", "/">>

\* The elements of the 'patterns' arrays of the files.
ArrayElements == {PatPy, PatPyComment, PatVenv, NonStr}

\* A string given where the array is expected: patterns = "*.py"
StrInPlaceOfArray == PatPy

\* The size of a section: one, plus one for each element of its array (plus
\* one for a string in place of the array).  What a section of size n holds.
SectionBodies(n) ==
    {[kind |-> "list", patterns |-> ps] : ps \in StrsOfLen(ArrayElements, n - 1)}
        \cup (IF n = 1 THEN {[kind |-> "none", patterns |-> <<>>]} ELSE {})
        \cup (IF n = 2 THEN {[kind |-> "str", patterns |-> <<StrInPlaceOfArray>>]} ELSE {})

\* Every file content of size n: sections with distinct names out of names.
RECURSIVE SectionsOfSize(_, _)
SectionsOfSize(n, names) ==
    IF n = 0 THEN {<<>>}
    ELSE UNION {UNION {{<<Entry(name, b.kind, b.patterns)>> \o rest :
                            b \in SectionBodies(k),
                            rest \in SectionsOfSize(n - k, names \ {name})}
                          : k \in 1..n}
                  : name \in names}

OkFile(sections) == [status |-> "ok", sections |-> sections]

MalformedFile == [status |-> "malformed", sections |-> <<>>]

\* Bound: the size of the two files together.
MaxFilesSize == 5

\* Bound: the size of the two files together when the distributor's first
\* array is filled up by SmallListLimit further patterns.
MaxFilledFilesSize == 3

\* The sections with SmallListLimit distinct patterns added to the first array.
RECURSIVE FillFirstArray(_, _)
FillFirstArray(sections, i) ==
    IF i > Len(sections) THEN sections
    ELSE IF sections[i].kind = "list"
         THEN [sections EXCEPT ![i].patterns = @ \o Filler("distinct", SmallListLimit)]
         ELSE FillFirstArray(sections, i + 1)

\* The files of each size: not there, not parseable, or parsed into sections.
FilesOfSize(n) ==
    {OkFile(x) : x \in SectionsOfSize(n, CategoryNames)}
        \cup (IF n = 0 THEN {MissingFile, MalformedFile} ELSE {})

FilesBySize == [n \in 0..MaxFilesSize |-> FilesOfSize(n)]

(***************************************************************************)
(* Specification of the merge: one call of merge_gitignore_toml_files and  *)
(* one of load_gitignore_rules on the same two files                       *)
(***************************************************************************)

\* The two files, of at most maxSize together, or of at most maxFilled with
\* the distributor's first array filled up.
FilesUpTo(maxSize, maxFilled) ==
    \E nd \in 0..maxSize, filled \in BOOLEAN :
       \E nu \in 0..((IF filled THEN maxFilled ELSE maxSize) - nd) :
          /\ user \in FilesBySize[nu]
          /\ \E d \in FilesBySize[nd] :
                distributor = IF filled /\ d.status = "ok"
                              THEN OkFile(FillFirstArray(d.sections, 1))
                              ELSE d

InitMerge ==
    /\ pc = "start"
    /\ FilesUpTo(MaxFilesSize, MaxFilledFilesSize)
    /\ merged = NotCalled
    /\ loaded = NotCalled
    /\ remerged = NotCalled
    /\ DedupIdle
    /\ MatchIdle
    /\ RestIdle
    /\ SynthIdle
    /\ CacheIdle

Merge ==
    /\ pc = "start"
    /\ merged' = merge_gitignore_toml_files(distributor, user)
    /\ pc' = "merged"
    /\ UNCHANGED <<distributor, user, loaded, remerged, dedupVars, matchVars, restVars, synthVars, cacheVars>>

Load ==
    /\ pc = "merged"
    /\ loaded' = load_gitignore_rules(distributor, user)
    /\ pc' = "loaded"
    /\ UNCHANGED <<distributor, user, merged, remerged, dedupVars, matchVars, restVars, synthVars, cacheVars>>

\* merge_gitignore_toml_files once more, with the rules of the first merge as
\* the user's file.
MergeAgain ==
    /\ pc = "merged"
    /\ remerged' = IF merged.raised THEN Raised
                   ELSE merge_gitignore_toml_files(distributor, OkFile(merged.value))
    /\ pc' = "merged again"
    /\ UNCHANGED <<distributor, user, merged, loaded, dedupVars, matchVars, restVars, synthVars, cacheVars>>

NextMerge == Merge \/ Load

SpecMerge == InitMerge /\ [][NextMerge]_vars

(***************************************************************************)
(* Specification of the repeated merge: the rules of one merge written to  *)
(* the user's file and merged with the same distributor's file again       *)
(***************************************************************************)

\* The two files together have at most MaxRemergeSize sections and patterns.
MaxRemergeSize == 4

\* The same, where the distributor's first array is filled up.
MaxFilledRemergeSize == 2

InitRemerge ==
    /\ pc = "start"
    /\ FilesUpTo(MaxRemergeSize, MaxFilledRemergeSize)
    /\ merged = NotCalled
    /\ loaded = NotCalled
    /\ remerged = NotCalled
    /\ DedupIdle
    /\ MatchIdle
    /\ RestIdle
    /\ SynthIdle
    /\ CacheIdle

NextRemerge == Merge \/ MergeAgain

SpecRemerge == InitRemerge /\ [][NextRemerge]_vars

(***************************************************************************)
(* Specification of the validation: one call of                            *)
(* validate_merged_toml_structure                                          *)
(***************************************************************************)

\* Keys of the data: names, a blank name, the empty name and a key that is
\* not a str.
DataNames == {"Python", "Custom", "", " ", NonStrName}

\* Elements of the lists: a pattern, the empty string, a blank string and an
\* element that is not a str.
DataElements == {PatPy, <<>>, <<" ">>, NonStr}

\* The values of size n: one, plus one for each element of a list; a str and
\* None in place of the list.
DataBodies(n) ==
    {[kind |-> "list", patterns |-> ps] : ps \in StrsOfLen(DataElements, n - 1)}
        \cup (IF n = 1 THEN {[kind |-> "none", patterns |-> <<>>],
                             [kind |-> "str", patterns |-> <<PatPy>>]}
              ELSE {})

\* Every dict of size n with distinct keys out of names.
RECURSIVE ItemsOfSize(_, _)
ItemsOfSize(n, names) ==
    IF n = 0 THEN {<<>>}
    ELSE UNION {UNION {{<<Entry(name, b.kind, b.patterns)>> \o rest :
                            b \in DataBodies(k),
                            rest \in ItemsOfSize(n - k, names \ {name})}
                          : k \in 1..n}
                  : name \in names}

\* Bound: the size of the data.
MaxDataSize == 3

\* None, a list and a str in place of the dict.
NonDicts == {[type |-> t, items |-> <<>>] : t \in {"none", "list", "str"}}

InitValidate ==
    /\ pc = "start"
    /\ data \in NonDicts \cup {DictValue(x) : x \in UNION {ItemsOfSize(n, DataNames) : n \in 0..MaxDataSize}}
    /\ valid = FALSE
    /\ WriteIdle
    /\ ThreadIdle
    /\ ServerIdle
    /\ DedupIdle
    /\ MatchIdle
    /\ MergeIdle
    /\ SynthIdle
    /\ CacheIdle

Validate ==
    /\ pc = "start"
    /\ valid' = validate_merged_toml_structure(data)
    /\ pc' = "validated"
    /\ UNCHANGED <<data, writeVars, threadVars, serverVars, dedupVars, matchVars, mergeVars, synthVars, cacheVars>>

NextValidate == Validate

SpecValidate == InitValidate /\ [][NextValidate]_vars

(***************************************************************************)
(* check_and_backup_file and safe_write_file                               *)
(*                                                                         *)
(* One path and its sibling with '.backup' appended.  A file is [exists,   *)
(* content], the content being the characters as stored.  open() fails     *)
(* where perms does not allow it: dir for creating a file, read and write  *)
(* for the file that is there, bwrite for the backup that is there.  The   *)
(* files are opened in text mode with newline=None, on a system whose line *)
(* separator is '\n'.                                                      *)
(***************************************************************************)

\* f.read() of a file opened with open(path, 'r'): '\r\n' and '\r' are read
\* as '\n'.
RECURSIVE ReadText(_)
ReadText(stored) ==
    IF stored = <<>> THEN <<>>
    ELSE IF Head(stored) = "\r"
         THEN IF Len(stored) > 1 /\ stored[2] = "\n"
              THEN <<"\n">> \o ReadText(Tail(Tail(stored)))
              ELSE <<"\n">> \o ReadText(Tail(stored))
         ELSE <<Head(stored)>> \o ReadText(Tail(stored))

\* f.write(text) to a file opened with open(path, 'w'): '\n' is written as
\* the line separator '\n', every other character as it is.
WriteText(text) == text

\* open(path, 'w') of the file at file_path and of the backup succeeds.
CanWrite(f, p) == IF f.exists THEN p.write ELSE p.dir

CanWriteBackup(b, p) == IF b.exists THEN p.bwrite ELSE p.dir

\* check_and_backup_file(file_path, new_content): the backup after the call
\* and the value returned.
check_and_backup_file(f, b, p, new_content) ==
    IF ~f.exists THEN [backup |-> b, value |-> FALSE]
    ELSE IF ~p.read THEN [backup |-> b, value |-> FALSE]
    ELSE LET existing_content == ReadText(f.content)
         IN  IF Strip(existing_content) = Strip(new_content)
             THEN [backup |-> b, value |-> FALSE]
             ELSE IF ~CanWriteBackup(b, p) THEN [backup |-> b, value |-> FALSE]
             ELSE [backup |-> [exists |-> TRUE, content |-> WriteText(existing_content)],
                   value |-> TRUE]

\* safe_write_file(file_path, content): the two files after the call, the
\* value returned, and whether the file at file_path was written.
safe_write_file(f, b, p, content) ==
    LET checked == check_and_backup_file(f, b, p, content)
        new_file == [exists |-> TRUE, content |-> WriteText(content)]
    IN  IF checked.value \/ ~f.exists
        THEN IF CanWrite(f, p)
             THEN [target |-> new_file, backup |-> checked.backup,
                   value |-> TRUE, wrote |-> TRUE]
             ELSE [target |-> f, backup |-> checked.backup,
                   value |-> FALSE, wrote |-> FALSE]
        ELSE [target |-> f, backup |-> checked.backup, value |-> FALSE, wrote |-> FALSE]

(***************************************************************************)
(* Specification of the file writer: calls of safe_write_file on one path  *)
(***************************************************************************)

\* The characters of the contents.
ContentChars == {"a", "\n", "\r"}

\* Bound: the length of a content.
MaxContentLen == 3

\* Bound: how many times safe_write_file is called.
MaxWrites == 2

Contents == UNION {StrsOfLen(ContentChars, n) : n \in 0..MaxContentLen}

InitWrite ==
    /\ pc = "start"
    /\ target \in {NoFile} \cup {[exists |-> TRUE, content |-> c] : c \in Contents}
    /\ backup \in {NoFile, [exists |-> TRUE, content |-> <<"a">>]}
    /\ perms \in [dir : BOOLEAN, read : BOOLEAN, write : BOOLEAN, bwrite : BOOLEAN]
    /\ ~target.exists => perms.read /\ perms.write
    /\ ~backup.exists => perms.bwrite
    /\ returned = FALSE
    /\ written = FALSE
    /\ writes = 0
    /\ ValidateIdle
    /\ ThreadIdle
    /\ ServerIdle
    /\ DedupIdle
    /\ MatchIdle
    /\ MergeIdle
    /\ SynthIdle
    /\ CacheIdle

SafeWrite(content) ==
    /\ writes < MaxWrites
    /\ LET done == safe_write_file(target, backup, perms, content)
       IN  /\ target' = done.target
           /\ backup' = done.backup
           /\ returned' = done.value
           /\ written' = done.wrote
    /\ writes' = writes + 1
    /\ pc' = "written"
    /\ UNCHANGED <<perms, validateVars, threadVars, serverVars, dedupVars, matchVars, mergeVars, synthVars, cacheVars>>

SafeWriteCall == \E content \in Contents : SafeWrite(content)

NextWrite == SafeWriteCall

SpecWrite == InitWrite /\ [][NextWrite]_vars


(***************************************************************************)
(* scan_project_files and analyze_project_for_gitignore                    *)
(*                                                                         *)
(* The project is a set of entries [path, type] below the project root: the *)
(* path is the sequence of the names from the root to the entry, the type   *)
(* "file", "dir" or "link" (a symbolic link, to a file or to a directory).  *)
(***************************************************************************)

\* '/'.join(names)
RECURSIVE JoinPath(_)
JoinPath(names) ==
    IF Len(names) = 1 THEN names[1]
    ELSE names[1] \o <<"/">> \o JoinPath(Tail(names))

\* The entries of the directory at path root.
EntriesIn(t, root) ==
    {e \in t : Len(e.path) = Len(root) + 1 /\ SubSeq(e.path, 1, Len(root)) = root}

\* WalkFrom with followlinks=True: a link to a directory is walked into.
RECURSIVE WalkFollowsLinks(_, _)
WalkFollowsLinks(t, root) ==
    LET here == EntriesIn(t, root)
    IN  {JoinPath(e.path) \o <<"/">> : e \in {x \in here : x.type = "dir"}}
            \cup {JoinPath(e.path) : e \in {x \in here : x.type = "file"}}
            \cup UNION {WalkFollowsLinks(t, e.path) : e \in {x \in here : x.type # "file"}}

\* The os.walk loop from the directory at path root on: a directory is added
\* with a trailing '/', a file as it is, a symbolic link is not added;
\* followlinks=False walks into the directories that are no links.
RECURSIVE WalkFrom(_, _)
WalkFrom(t, root) ==
    LET here == EntriesIn(t, root)
    IN  {JoinPath(e.path) \o <<"/">> : e \in {x \in here : x.type = "dir"}}
            \cup {JoinPath(e.path) : e \in {x \in here : x.type = "file"}}
            \cup UNION {WalkFrom(t, e.path) : e \in {x \in here : x.type = "dir"}}

\* scan_project_files(project_path): os.walk has no onerror and yields
\* nothing for a root that is missing or cannot be listed, and the function
\* returns the empty set.
scan_project_files(r, t) ==
    IF r # "dir" THEN Ok({}) ELSE Ok(WalkFrom(t, <<>>))

\* AnalyzeSection with a category of no matching pattern kept, with no rules.
AnalyzeSectionKeepsEmpty(r, section, fs) ==
    IF r.raised THEN r
    ELSE LET ps == IF section.kind = "str" THEN CharsOf(section.patterns[1])
                   ELSE section.patterns
         IN  IF fs # {} /\ \E j \in 1..Len(ps) : ~IsStr(ps[j]) THEN Raised
             ELSE LET section_rules ==
                          SelectSeq(ps, LAMBDA p : IsStr(p) /\ match_pattern(p, fs))
                  IN  Ok(DictSet(r.value, Entry(section.name, "list", section_rules)))

\* One iteration of the loop over the rules: r is [raised, value], raised
\* once match_pattern has raised, which it does on a pattern that is no str
\* when there is a file to match it with.
AnalyzeSection(r, section, fs) ==
    IF r.raised THEN r
    ELSE LET ps == IF section.kind = "str" THEN CharsOf(section.patterns[1])
                   ELSE section.patterns
         IN  IF fs # {} /\ \E j \in 1..Len(ps) : ~IsStr(ps[j]) THEN Raised
             ELSE LET section_rules ==
                          SelectSeq(ps, LAMBDA p : IsStr(p) /\ match_pattern(p, fs))
                  IN  IF section_rules # <<>>
                      THEN Ok(DictSet(r.value, Entry(section.name, "list", section_rules)))
                      ELSE r

RECURSIVE AnalyzeLoop(_, _, _, _)
AnalyzeLoop(rules, i, fs, r) ==
    IF i > Len(rules) THEN r
    ELSE AnalyzeLoop(rules, i + 1, fs, AnalyzeSection(r, rules[i], fs))

\* analyze_project_for_gitignore that raises when no category is needed.
AnalyzeRaisesOnEmpty(rules, scanned) ==
    IF rules.raised \/ scanned.raised THEN Raised
    ELSE LET r == AnalyzeLoop(rules.value, 1, scanned.value, Ok(<<>>))
         IN  IF r.value = <<>> THEN Raised ELSE r

\* analyze_project_for_gitignore(project_path), given the rules that its call
\* of load_gitignore_rules returned and the set that its call of
\* scan_project_files returned.
analyze_project_for_gitignore(rules, scanned) ==
    IF rules.raised \/ scanned.raised THEN Raised
    ELSE AnalyzeLoop(rules.value, 1, scanned.value, Ok(<<>>))

(***************************************************************************)
(* Inputs of the analysis                                                  *)
(***************************************************************************)

NameVenv == <<"v", "e", "n", "v">>

NameAppPy == <<"a", "p", "p", ".", "p", "y">>

NameSrc == <<"s", "r", "c">>

\* The paths an entry of the project can have.
TreePaths ==
    {<<NameVenv>>, <<NameAppPy>>, <<NameSrc>>, <<NameSrc, NameVenv>>, <<NameSrc, NameAppPy>>}

EntryTypes == {"file", "dir", "link"}

\* The project root is a directory, is not there, or cannot be listed.
RootStates == {"dir", "missing", "unreadable"}

\* Every entry is in a directory or in a link to one.
IsTree(t) ==
    \A e \in t : Len(e.path) > 1 =>
        \E d \in t : d.path = SubSeq(e.path, 1, Len(e.path) - 1) /\ d.type \in {"dir", "link"}

\* The projects: each path is absent or has one type.
Trees ==
    LET choices == [TreePaths -> EntryTypes \cup {"absent"}]
        entries(f) == {[path |-> q, type |-> f[q]] : q \in {x \in TreePaths : f[x] # "absent"}}
    IN  {t \in {entries(f) : f \in choices} : IsTree(t)}

\* Bound: the size of the distributor's file and the entries of the project
\* together.
MaxSynthSize == 4

TreesBySize == [n \in 0..MaxSynthSize |-> {t \in Trees : Cardinality(t) = n}]

\* The user's file: none, or one that shares Python and adds Custom.
SynthUserFiles ==
    {MissingFile,
     OkFile(<<Entry("Custom", "list", <<PatVenv>>), Entry("Python", "list", <<PatVenv>>)>>),
     OkFile(<<Entry("Custom", "list", <<PatVenv, PatPy>>)>>)}

(***************************************************************************)
(* Specification of the analysis: one call of                              *)
(* analyze_project_for_gitignore                                           *)
(***************************************************************************)

InitSynth ==
    /\ pc = "start"
    /\ \E nd \in 0..MaxSynthSize :
          \E nt \in 0..(MaxSynthSize - nd) :
             /\ distributor \in FilesBySize[nd]
             /\ tree \in TreesBySize[nt]
             /\ project_path \in IF tree = {} THEN RootStates ELSE {"dir", "unreadable"}
    /\ user \in SynthUserFiles
    /\ merged = NotCalled
    /\ loaded = NotCalled
    /\ remerged = NotCalled
    /\ project_files = {}
    /\ analysis = NotCalled
    /\ DedupIdle
    /\ MatchIdle
    /\ RestIdle
    /\ CacheIdle

Analyze ==
    /\ pc = "start"
    /\ loaded' = load_gitignore_rules(distributor, user)
    /\ LET scanned == scan_project_files(project_path, tree)
       IN  /\ project_files' = IF loaded'.raised \/ scanned.raised THEN {} ELSE scanned.value
           /\ analysis' = analyze_project_for_gitignore(loaded', scanned)
    /\ pc' = "analyzed"
    /\ UNCHANGED <<distributor, user, merged, remerged, project_path, tree, dedupVars, matchVars, restVars, cacheVars>>

NextSynth == Analyze

SpecSynth == InitSynth /\ [][NextSynth]_vars

(***************************************************************************)
(* The cache of merge_gitignore_rules                                      *)
(*                                                                         *)
(* A dict of the cache maps a category to a reference of a list object:    *)
(* dict.copy() copies the references, not the lists.  Time is in minutes.  *)
(***************************************************************************)

\* _cache_duration = timedelta(minutes=5)
CacheDuration == 5

\* _is_cache_valid with <= in place of <.
IsCacheValidInclusive(ts, t) == ts # NoTime /\ t - ts <= CacheDuration

\* _is_cache_valid() at time t with _cache_timestamp = ts
is_cache_valid(ts, t) == ts # NoTime /\ t - ts < CacheDuration

\* The rules as a dict of new list objects, and the heap with them.
Allocate(h, rules) ==
    [dict |-> [i \in 1..Len(rules) |-> [name |-> rules[i].name, ref |-> Len(h) + i]],
     heap |-> h \o [i \in 1..Len(rules) |-> rules[i].patterns]]

\* What a dict of references holds.
Content(d, h) == [i \in 1..Len(d) |-> [name |-> d[i].name, patterns |-> h[d[i].ref]]]

\* The rules as a dict that holds its lists.
Plain(rules) == [i \in 1..Len(rules) |-> [name |-> rules[i].name, patterns |-> rules[i].patterns]]

\* The try block of merge_gitignore_rules and its except branch: the merge
\* when the user's file exists and load_gitignore_rules when not, and
\* load_gitignore_rules once more when that raised.
ComputeRules(dist, usr) ==
    LET first == IF usr.status # "missing"
                 THEN merge_gitignore_toml_files(dist, usr)
                 ELSE load_gitignore_rules(dist, usr)
    IN  IF first.raised THEN load_gitignore_rules(dist, usr) ELSE first

(***************************************************************************)
(* Inputs of the cache                                                     *)
(***************************************************************************)

CacheDistributorFiles == {OkFile(<<Entry("Python", "list", <<PatPy>>)>>), MissingFile}

CacheUserFiles ==
    {MissingFile,
     OkFile(<<Entry("Python", "list", <<PatVenv>>)>>),
     OkFile(<<Entry("Custom", "list", <<PatVenv>>)>>)}

\* Bound: the last minute of the clock.
MaxTime == 6

\* Bound: how many times the files are parsed.
MaxComputations == 3

(***************************************************************************)
(* Specification of the cache: calls of merge_gitignore_rules and          *)
(* _clear_cache while time passes and the files are edited                 *)
(***************************************************************************)

InitCache ==
    /\ pc = "start"
    /\ distributor \in CacheDistributorFiles
    /\ user \in CacheUserFiles
    /\ merged = NotCalled
    /\ loaded = NotCalled
    /\ remerged = NotCalled
    /\ DedupIdle
    /\ MatchIdle
    /\ RestIdle
    /\ SynthIdle
    /\ CacheIdle

\* merge_gitignore_rules that stamps the cache when the computation raised.
CallMergeRulesStampsOnFailure ==
    /\ is_cache_valid(cache_timestamp, now) \/ computations < MaxComputations
    /\ pc' = "got"
    /\ IF is_cache_valid(cache_timestamp, now)
       THEN /\ result' = Ok(merge_cache)
            /\ hit' = TRUE
            /\ UNCHANGED <<merge_cache, cache_timestamp, heap, computations,
                           computed_at, computed>>
       ELSE LET rules == ComputeRules(distributor, user)
                new == Allocate(heap, rules.value)
            IN  /\ hit' = FALSE
                /\ computations' = computations + 1
                /\ IF rules.raised
                   THEN /\ result' = Raised
                        /\ cache_timestamp' = now
                        /\ UNCHANGED <<merge_cache, heap, computed_at, computed>>
                   ELSE /\ result' = Ok(new.dict)
                        /\ merge_cache' = new.dict
                        /\ cache_timestamp' = now
                        /\ heap' = new.heap
                        /\ computed_at' = now
                        /\ computed' = Content(new.dict, new.heap)
    /\ UNCHANGED <<now, distributor, user, merged, loaded, remerged, dedupVars, matchVars, restVars, synthVars>>

\* merge_gitignore_rules()
CallMergeRules ==
    /\ is_cache_valid(cache_timestamp, now) \/ computations < MaxComputations
    /\ pc' = "got"
    /\ IF is_cache_valid(cache_timestamp, now)
       THEN /\ result' = Ok(merge_cache)
            /\ hit' = TRUE
            /\ UNCHANGED <<merge_cache, cache_timestamp, heap, computations,
                           computed_at, computed>>
       ELSE LET rules == ComputeRules(distributor, user)
                new == Allocate(heap, rules.value)
            IN  /\ hit' = FALSE
                /\ computations' = computations + 1
                /\ IF rules.raised
                   THEN /\ result' = Raised
                        /\ UNCHANGED <<merge_cache, cache_timestamp, heap,
                                       computed_at, computed>>
                   ELSE /\ result' = Ok(new.dict)
                        /\ merge_cache' = new.dict
                        /\ cache_timestamp' = now
                        /\ heap' = new.heap
                        /\ computed_at' = now
                        /\ computed' = Content(new.dict, new.heap)
    /\ UNCHANGED <<now, distributor, user, merged, loaded, remerged, dedupVars, matchVars, restVars, synthVars>>

\* _clear_cache that leaves _cache_timestamp as it is.
ClearCacheKeepsTimestamp ==
    /\ pc' = "cleared"
    /\ merge_cache' = <<>>
    /\ computed_at' = NoTime
    /\ computed' = <<>>
    /\ UNCHANGED <<now, cache_timestamp, heap, result, computations, hit,
                   distributor, user, merged, loaded, remerged, dedupVars, matchVars, restVars, synthVars>>

\* _clear_cache()
ClearCache ==
    /\ pc' = "cleared"
    /\ merge_cache' = <<>>
    /\ cache_timestamp' = NoTime
    /\ computed_at' = NoTime
    /\ computed' = <<>>
    /\ UNCHANGED <<now, heap, result, computations, hit,
                   distributor, user, merged, loaded, remerged, dedupVars, matchVars, restVars, synthVars>>

\* A minute passes.
Tick ==
    /\ now < MaxTime
    /\ now' = now + 1
    /\ UNCHANGED <<pc, merge_cache, cache_timestamp, heap, result, computations,
                   computed_at, computed, hit, mergeVars, dedupVars, matchVars, restVars, synthVars>>

\* The user's file is written, replaced or deleted.
EditUserFile ==
    /\ user' \in CacheUserFiles \ {user}
    /\ UNCHANGED <<pc, distributor, merged, loaded, remerged, cacheVars, dedupVars, matchVars, restVars, synthVars>>

\* The distributor's file is deleted or put back.
EditDistributorFile ==
    /\ distributor' \in CacheDistributorFiles \ {distributor}
    /\ UNCHANGED <<pc, user, merged, loaded, remerged, cacheVars, dedupVars, matchVars, restVars, synthVars>>

NextCache == CallMergeRules \/ ClearCache \/ Tick \/ EditUserFile \/ EditDistributorFile

SpecCache == InitCache /\ [][NextCache]_vars

(***************************************************************************)
(* Specification of the cache under concurrent handlers: two handlers call *)
(* merge_gitignore_rules and _clear_cache, a step being one read or one     *)
(* assignment of _merge_cache or _cache_timestamp.  The code takes no lock. *)
(***************************************************************************)

\* Bound: how many calls each handler makes.
MaxHandlerCalls == 2

InitThreads ==
    /\ pc = "start"
    /\ distributor \in CacheDistributorFiles
    /\ user \in CacheUserFiles
    /\ merged = NotCalled
    /\ loaded = NotCalled
    /\ remerged = NotCalled
    /\ DedupIdle
    /\ MatchIdle
    /\ RestIdle
    /\ SynthIdle
    /\ CacheIdle

\* What no step of a handler changes.
HandlerFrame ==
    UNCHANGED <<pc, now, result, computed_at, computed, hit, mergeVars, dedupVars,
                matchVars, synthVars, validateVars, writeVars, serverVars>>

CanBegin(h) == handler[h].at \in {"idle", "returned"} /\ handler[h].calls < MaxHandlerCalls

\* merge_gitignore_rules is entered: _is_cache_valid reads _cache_timestamp
\* and compares it with None.
BeginMergeRules(h) ==
    /\ CanBegin(h)
    /\ handler' = [handler EXCEPT ![h] =
          [IdleHandler EXCEPT !.calls = handler[h].calls + 1,
                              !.at = IF cache_timestamp = NoTime THEN "compute" ELSE "check",
                              !.missed = cache_timestamp = NoTime]]
    /\ UNCHANGED <<merge_cache, cache_timestamp, heap, computations, stamped>>
    /\ HandlerFrame

\* _is_cache_valid reads _cache_timestamp again and subtracts it from
\* datetime.now(): a TypeError when it is None by now.
CheckAge(h) ==
    /\ handler[h].at = "check"
    /\ handler' = [handler EXCEPT ![h] =
          IF cache_timestamp = NoTime
          THEN [@ EXCEPT !.at = "returned", !.ret = Raised]
          ELSE IF is_cache_valid(cache_timestamp, now)
               THEN [@ EXCEPT !.at = "read", !.expect = stamped]
               ELSE [@ EXCEPT !.at = "compute", !.missed = TRUE]]
    /\ UNCHANGED <<merge_cache, cache_timestamp, heap, computations, stamped>>
    /\ HandlerFrame

\* return _merge_cache.copy()
ReadCache(h) ==
    /\ handler[h].at = "read"
    /\ handler' = [handler EXCEPT ![h] =
          [@ EXCEPT !.at = "returned", !.hit = TRUE,
                    !.ret = Ok(Content(merge_cache, heap))]]
    /\ UNCHANGED <<merge_cache, cache_timestamp, heap, computations, stamped>>
    /\ HandlerFrame

\* The files are read and merged.
Compute(h) ==
    /\ handler[h].at = "compute"
    /\ computations < MaxComputations
    /\ computations' = computations + 1
    /\ LET rules == ComputeRules(distributor, user)
       IN  handler' = [handler EXCEPT ![h] =
              IF rules.raised
              THEN [@ EXCEPT !.at = "returned", !.ret = Raised]
              ELSE [@ EXCEPT !.at = "update_cache", !.rules = rules]]
    /\ UNCHANGED <<merge_cache, cache_timestamp, heap, stamped>>
    /\ HandlerFrame

\* _update_cache: _merge_cache = data.copy()
UpdateCache(h) ==
    /\ handler[h].at = "update_cache"
    /\ LET new == Allocate(heap, handler[h].rules.value)
       IN  /\ merge_cache' = new.dict
           /\ heap' = new.heap
    /\ handler' = [handler EXCEPT ![h].at = "update_timestamp"]
    /\ UNCHANGED <<cache_timestamp, computations, stamped>>
    /\ HandlerFrame

\* _update_cache: _cache_timestamp = datetime.now(), and return result
UpdateTimestamp(h) ==
    /\ handler[h].at = "update_timestamp"
    /\ cache_timestamp' = now
    /\ stamped' = Plain(handler[h].rules.value)
    /\ handler' = [handler EXCEPT ![h] =
          [@ EXCEPT !.at = "returned", !.ret = Ok(Plain(handler[h].rules.value))]]
    /\ UNCHANGED <<merge_cache, heap, computations>>
    /\ HandlerFrame

\* _clear_cache: _merge_cache = {}
BeginClearCache(h) ==
    /\ CanBegin(h)
    /\ merge_cache' = <<>>
    /\ handler' = [handler EXCEPT ![h] =
          [IdleHandler EXCEPT !.calls = handler[h].calls + 1, !.at = "clear_timestamp"]]
    /\ UNCHANGED <<cache_timestamp, heap, computations, stamped>>
    /\ HandlerFrame

\* _clear_cache: _cache_timestamp = None
ClearTimestamp(h) ==
    /\ handler[h].at = "clear_timestamp"
    /\ cache_timestamp' = NoTime
    /\ stamped' = <<>>
    /\ handler' = [handler EXCEPT ![h].at = "returned"]
    /\ UNCHANGED <<merge_cache, heap, computations>>
    /\ HandlerFrame

HandlerStep ==
    \E h \in Handlers :
        \/ BeginMergeRules(h)
        \/ CheckAge(h)
        \/ ReadCache(h)
        \/ Compute(h)
        \/ UpdateCache(h)
        \/ UpdateTimestamp(h)
        \/ BeginClearCache(h)
        \/ ClearTimestamp(h)

NextThreads == HandlerStep \/ Tick \/ EditUserFile

SpecThreads == InitThreads /\ [][NextThreads]_vars

(***************************************************************************)
(* Specification of the cache and its callers: calls of                    *)
(* merge_gitignore_rules by a caller that modifies the dict it was given   *)
(***************************************************************************)

\* Bound: how many list objects there are when the caller makes one more.
MaxLists == 3

\* Bound: how long a list is when the caller appends to it.
MaxAppendedLen == 2

\* result["Extra"] = ["*.py"]
CallerAddsCategory ==
    /\ pc \in {"got", "modified"}
    /\ ~result.raised
    /\ \A i \in 1..Len(result.value) : result.value[i].name # "Extra"
    /\ Len(heap) < MaxLists
    /\ heap' = Append(heap, <<PatPy>>)
    /\ result' = Ok(Append(result.value, [name |-> "Extra", ref |-> Len(heap) + 1]))
    /\ pc' = "modified"
    /\ UNCHANGED <<now, merge_cache, cache_timestamp, computations, computed_at,
                   computed, hit, mergeVars, dedupVars, matchVars, restVars, synthVars>>

\* del result[category]
CallerRemovesCategory ==
    /\ pc \in {"got", "modified"}
    /\ \E i \in 1..Len(result.value) :
          result' = Ok(SubSeq(result.value, 1, i - 1)
                          \o SubSeq(result.value, i + 1, Len(result.value)))
    /\ pc' = "modified"
    /\ UNCHANGED <<now, merge_cache, cache_timestamp, heap, computations, computed_at,
                   computed, hit, mergeVars, dedupVars, matchVars, restVars, synthVars>>

\* result[category].append("*.py")
CallerAppendsPattern ==
    /\ pc \in {"got", "modified"}
    /\ \E i \in 1..Len(result.value) :
          /\ Len(heap[result.value[i].ref]) < MaxAppendedLen
          /\ heap' = [heap EXCEPT ![result.value[i].ref] = Append(@, PatPy)]
    /\ pc' = "modified"
    /\ UNCHANGED <<now, merge_cache, cache_timestamp, result, computations, computed_at,
                   computed, hit, mergeVars, dedupVars, matchVars, restVars, synthVars>>

\* result[category].pop(0)
CallerRemovesPattern ==
    /\ pc \in {"got", "modified"}
    /\ \E i \in 1..Len(result.value) :
          /\ heap[result.value[i].ref] # <<>>
          /\ heap' = [heap EXCEPT ![result.value[i].ref] = Tail(@)]
    /\ pc' = "modified"
    /\ UNCHANGED <<now, merge_cache, cache_timestamp, result, computations, computed_at,
                   computed, hit, mergeVars, dedupVars, matchVars, restVars, synthVars>>

NextCacheCallers ==
    \/ CallMergeRules
    \/ Tick
    \/ EditUserFile
    \/ CallerAddsCategory
    \/ CallerRemovesCategory
    \/ CallerAppendsPattern
    \/ CallerRemovesPattern

SpecCacheCallers == InitCache /\ [][NextCacheCallers]_vars

(***************************************************************************)
(* Specification of repeated analyses: calls of                            *)
(* analyze_project_for_gitignore while time passes and the user's file is  *)
(* edited                                                                  *)
(***************************************************************************)

InitRepeat ==
    /\ pc = "start"
    /\ distributor \in CacheDistributorFiles
    /\ user \in CacheUserFiles
    /\ merged = NotCalled
    /\ loaded = NotCalled
    /\ remerged = NotCalled
    /\ project_path = "dir"
    /\ tree \in TreesBySize[1]
    /\ project_files = {}
    /\ analysis = NotCalled
    /\ DedupIdle
    /\ MatchIdle
    /\ RestIdle
    /\ CacheIdle

\* analyze_project_for_gitignore(project_path), called again and again: each
\* call reads the files through load_gitignore_rules, and none reads or
\* writes _merge_cache or _cache_timestamp.
AnalyzeProject ==
    /\ computations < MaxComputations
    /\ loaded' = load_gitignore_rules(distributor, user)
    /\ computations' = computations + 1
    /\ computed_at' = IF loaded'.raised THEN computed_at ELSE now
    /\ LET scanned == scan_project_files(project_path, tree)
       IN  /\ project_files' = IF loaded'.raised \/ scanned.raised THEN {} ELSE scanned.value
           /\ analysis' = analyze_project_for_gitignore(loaded', scanned)
    /\ pc' = "analyzed"
    /\ UNCHANGED <<distributor, user, merged, remerged, project_path, tree, now, merge_cache,
                   cache_timestamp, heap, result, computed, hit, dedupVars, matchVars, restVars>>

NextRepeat == AnalyzeProject \/ Tick \/ EditUserFile

SpecRepeat == InitRepeat /\ [][NextRepeat]_vars

(***************************************************************************)
(* The server: main() reads stdin line by line and prints what             *)
(* handle_request returns                                                  *)
(*                                                                         *)
(* A line is [kind, method, id, params, tool, args]: kind "blank" for a    *)
(* line that strips to nothing, "invalid" for one json.loads rejects,      *)
(* "value" for JSON that is not an object, "object" for an object with     *)
(* these members.  id "null" stands for a request without id.  A response  *)
(* is [id, kind, code, text, rules].                                       *)
(***************************************************************************)

ParseErrorCode == -32700
MethodNotFoundCode == -32601
InvalidParamsCode == -32602
InternalErrorCode == -32603

ErrorResponse(id, code) ==
    [id |-> id, kind |-> "error", code |-> code, text |-> "", rules |-> <<>>]

ResultResponse(id, text, rules) ==
    [id |-> id, kind |-> "result", code |-> 0, text |-> text, rules |-> rules]

\* handle_request returned None.
NoResponse == [id |-> "null", kind |-> "none", code |-> 0, text |-> "", rules |-> <<>>]

\* load_config(): the configuration kept in _config, or the file as loaded.
load_config(cache, file) ==
    IF cache # "none" THEN Ok(cache)
    ELSE IF file = "missing" THEN Raised
    ELSE Ok(file)

\* load_gitignore_rules() as main() finds it: run as a script, main() is
\* called before the definition of merge_gitignore_toml_files is executed, and
\* the call for a user's file that exists ends in a NameError.
ServerLoadRules(m, dist, usr) ==
    IF m = "script" /\ usr.status # "missing" THEN Raised
    ELSE load_gitignore_rules(dist, usr)

\* The text of the generate_gitignore tool for the analysis found: its rules
\* in the prompt of the configuration, or the error text of the except branch.
GitignoreText(cfg, found) ==
    IF found.raised \/ cfg \in {"no_prompt", "bad_template"}
    THEN [text |-> "error block", rules |-> <<>>]
    ELSE [text |-> "rules", rules |-> Plain(found.value)]

\* The generate_gitignore tool: the project is analysed and the text built.
GenerateText(cfg, m, dist, usr, r, t) ==
    GitignoreText(cfg, analyze_project_for_gitignore(ServerLoadRules(m, dist, usr),
                                                     scan_project_files(r, t)))

\* The result that carries the text of a tool.
TextResponse(id, text) == ResultResponse(id, text.text, text.rules)

\* The tools/call branch of handle_request, the configuration loaded.
CallTool(l, cfg, m, dist, usr, r, t) ==
    IF l.params = "nondict" THEN ErrorResponse(l.id, InternalErrorCode)
    ELSE IF cfg = "no_tools" THEN ErrorResponse(l.id, InternalErrorCode)
    ELSE IF l.tool = "unhashable" THEN ErrorResponse(l.id, InternalErrorCode)
    ELSE IF l.tool = "generate_gitignore"
         THEN TextResponse(l.id, GenerateText(cfg, m, dist, usr, r, t))
    ELSE IF l.tool \in {"how_to_do_list", "explain"}
         THEN IF cfg = "no_prompt" THEN ErrorResponse(l.id, InternalErrorCode)
              ELSE IF l.tool = "explain" /\ l.args = "nondict"
                   THEN ErrorResponse(l.id, InternalErrorCode)
              ELSE IF cfg = "bad_template" \/ (l.tool = "explain" /\ l.args = "absent")
                   THEN ErrorResponse(l.id, InvalidParamsCode)
              ELSE ResultResponse(l.id, "prompt", <<>>)
    ELSE ErrorResponse(l.id, InvalidParamsCode)

\* handle_request that answers the initialized notification.
HandleRequestAnswersNotifications(l, cache, file, m, dist, usr, r, t) ==
    LET loaded_config == load_config(cache, file)
        kept == IF loaded_config.raised THEN cache ELSE loaded_config.value
    IN  IF l.method \in {"initialize", "notifications/initialized", "initialized"}
        THEN [response |-> ResultResponse(l.id, "info", <<>>), config |-> cache]
        ELSE IF l.method = "ping"
        THEN [response |-> ResultResponse(l.id, "", <<>>), config |-> cache]
        ELSE IF l.method = "tools/list"
        THEN [response |-> IF loaded_config.raised \/ loaded_config.value = "no_tools"
                           THEN ErrorResponse(l.id, InternalErrorCode)
                           ELSE ResultResponse(l.id, "tools", <<>>),
              config |-> kept]
        ELSE IF l.method = "tools/call"
        THEN IF l.params = "nondict"
             THEN [response |-> ErrorResponse(l.id, InternalErrorCode), config |-> cache]
             ELSE [response |-> IF loaded_config.raised
                                THEN ErrorResponse(l.id, InternalErrorCode)
                                ELSE CallTool(l, loaded_config.value, m, dist, usr, r, t),
                   config |-> kept]
        ELSE [response |-> ErrorResponse(l.id, MethodNotFoundCode), config |-> cache]

\* handle_request(request) for a request that is a dict: the response, and
\* _config after the call.
handle_request(l, cache, file, m, dist, usr, r, t) ==
    LET loaded_config == load_config(cache, file)
        kept == IF loaded_config.raised THEN cache ELSE loaded_config.value
    IN  IF l.method = "initialize"
        THEN [response |-> ResultResponse(l.id, "info", <<>>), config |-> cache]
        ELSE IF l.method \in {"notifications/initialized", "initialized"}
        THEN [response |-> NoResponse, config |-> cache]
        ELSE IF l.method = "ping"
        THEN [response |-> ResultResponse(l.id, "", <<>>), config |-> cache]
        ELSE IF l.method = "tools/list"
        THEN [response |-> IF loaded_config.raised \/ loaded_config.value = "no_tools"
                           THEN ErrorResponse(l.id, InternalErrorCode)
                           ELSE ResultResponse(l.id, "tools", <<>>),
              config |-> kept]
        ELSE IF l.method = "tools/call"
        THEN IF l.params = "nondict"
             THEN [response |-> ErrorResponse(l.id, InternalErrorCode), config |-> cache]
             ELSE [response |-> IF loaded_config.raised
                                THEN ErrorResponse(l.id, InternalErrorCode)
                                ELSE CallTool(l, loaded_config.value, m, dist, usr, r, t),
                   config |-> kept]
        ELSE [response |-> ErrorResponse(l.id, MethodNotFoundCode), config |-> cache]

\* if response is not None: print(json.dumps(response)).
PrintResponse(handled) ==
    [printed |-> IF handled.response = NoResponse THEN <<>> ELSE <<handled.response>>,
     config |-> handled.config]

\* One pass of the loop of main(): what is printed for the line, and _config
\* after it.
ServeOne(l, cache, file, m, dist, usr, r, t) ==
    IF l.kind = "blank" THEN [printed |-> <<>>, config |-> cache]
    ELSE IF l.kind = "invalid"
         THEN [printed |-> <<ErrorResponse("null", ParseErrorCode)>>, config |-> cache]
    ELSE IF l.kind = "value"
         THEN [printed |-> <<ErrorResponse("null", InternalErrorCode)>>, config |-> cache]
    ELSE PrintResponse(handle_request(l, cache, file, m, dist, usr, r, t))

(***************************************************************************)
(* Inputs of the server                                                    *)
(***************************************************************************)

Line(kind, method, id, params, tool, args) ==
    [kind |-> kind, method |-> method, id |-> id, params |-> params,
     tool |-> tool, args |-> args]

\* A request without params.
Request(method, id) == Line("object", method, id, "absent", "none", "absent")

\* A tools/call request with params {"name": tool, "arguments": args}.
ToolCall(id, tool, args) == Line("object", "tools/call", id, "dict", tool, args)

\* Lines that are no requests: blank, not JSON, and JSON that is no object.
OtherLines ==
    {Line(k, "none", "null", "absent", "none", "absent") : k \in {"blank", "invalid", "value"}}

\* Requests of every method, "none" for a request without method.
PlainRequests ==
    {Request(method, "1") : method \in {"initialize", "notifications/initialized",
                                        "initialized", "ping", "tools/list", "none"}}
        \cup {Request(method, "null") : method \in {"notifications/initialized", "ping",
                                                    "nope"}}

ToolCalls ==
    {Line("object", "tools/call", "1", p, "none", "absent") : p \in {"absent", "nondict"}}
        \cup {ToolCall("1", tool, "absent") :
                 tool \in {"generate_gitignore", "how_to_do_list", "explain", "zzz",
                           "unhashable"}}
        \cup {ToolCall("1", "explain", args) : args \in {"topic", "nondict"}}
        \cup {ToolCall("null", "generate_gitignore", "absent")}

Lines == OtherLines \cup PlainRequests \cup ToolCalls

ConfigFiles == {"ok", "missing", "no_tools", "no_prompt", "bad_template"}

\* Bound: how many lines the server is given.
MaxLines == 2

\* A project with one file, app.py.
OneFileTree == {[path |-> <<NameAppPy>>, type |-> "file"]}

(***************************************************************************)
(* Specification of the server: the loop of main() over the lines of stdin *)
(***************************************************************************)

ServerRest ==
    /\ stdout = <<>>
    /\ config = "none"
    /\ merged = NotCalled
    /\ loaded = NotCalled
    /\ remerged = NotCalled
    /\ project_files = {}
    /\ analysis = NotCalled
    /\ DedupIdle
    /\ MatchIdle
    /\ CacheIdle
    /\ ValidateIdle
    /\ WriteIdle
    /\ ThreadIdle

InitServer ==
    /\ pc = "start"
    /\ stdin \in UNION {StrsOfLen(Lines, n) : n \in 0..MaxLines}
    /\ config_file \in ConfigFiles
    /\ mode = "script"
    /\ distributor = OkFile(<<Entry("Python", "list", <<PatPy>>)>>)
    /\ user = MissingFile
    /\ project_path = "dir"
    /\ tree = OneFileTree
    /\ ServerRest

\* for line in sys.stdin: one pass of the loop.
ServeLine ==
    /\ pc \in {"start", "serving"}
    /\ stdin # <<>>
    /\ \E served \in {ServeOne(Head(stdin), config, config_file, mode, distributor, user,
                                 project_path, tree)} :
          /\ stdout' = stdout \o served.printed
          /\ config' = served.config
    /\ stdin' = Tail(stdin)
    /\ pc' = "serving"
    /\ UNCHANGED <<config_file, mode, mergeVars, synthVars, dedupVars, matchVars, cacheVars,
                   validateVars, writeVars, threadVars>>

\* The end of stdin ends the loop.
EndOfInput ==
    /\ pc \in {"start", "serving"}
    /\ stdin = <<>>
    /\ pc' = "ended"
    /\ UNCHANGED <<serverVars, mergeVars, synthVars, dedupVars, matchVars, cacheVars,
                   validateVars, writeVars, threadVars>>

\* KeyboardInterrupt ends the loop.
Interrupt ==
    /\ pc \in {"start", "serving"}
    /\ pc' = "interrupted"
    /\ UNCHANGED <<serverVars, mergeVars, synthVars, dedupVars, matchVars, cacheVars,
                   validateVars, writeVars, threadVars>>

NextServer == ServeLine \/ EndOfInput \/ Interrupt

SpecServer == InitServer /\ [][NextServer]_vars

(***************************************************************************)
(* Specification of the generate_gitignore tool: the server given calls of *)
(* the tool, over the files, the project and the configuration             *)
(***************************************************************************)

\* Bound: how many calls of the tool the server is given.
MaxToolCalls == 2

ToolLines == {ToolCall(id, "generate_gitignore", "absent") : id \in {"1", "null"}}

InitTool ==
    /\ pc = "start"
    /\ stdin \in UNION {StrsOfLen(ToolLines, n) : n \in 1..MaxToolCalls}
    /\ config_file \in ConfigFiles
    /\ mode \in {"script", "imported"}
    /\ distributor \in CacheDistributorFiles \cup {MalformedFile}
    /\ user \in CacheUserFiles \cup {MalformedFile}
    /\ project_path \in RootStates
    /\ tree \in IF project_path = "missing" THEN {{}} ELSE {{}, OneFileTree}
    /\ ServerRest

SpecTool == InitTool /\ [][NextServer]_vars

(***************************************************************************)
(* Properties of deduplicate_patterns                                      *)
(***************************************************************************)

\* The indexes of the first occurrences: a non-empty comparison key that no
\* earlier element has.
FirstOccurrenceIndexes(ps) ==
    LET key == [i \in 1..Len(ps) |-> CleanPattern(ps[i])]
    IN  {i \in 1..Len(ps) : key[i] # <<>> /\ \A j \in 1..(i - 1) : key[j] # key[i]}

\* The elements of ps at the indexes K, in the order of ps.
ElementsAt(ps, K) ==
    LET rank == [i \in K |-> Cardinality({j \in K : j <= i})]
    IN  [r \in 1..Cardinality(K) |-> ps[CHOOSE i \in K : rank[i] = r]]

\* The first occurrences of ps in input order.
FirstOccurrences(ps) == ElementsAt(ps, FirstOccurrenceIndexes(ps))

\* The non-empty comparison keys of a list.
KeysOf(ps) == {CleanPattern(ps[i]) : i \in 1..Len(ps)} \ {<<>>}

\* C8: for a list of any length the output of deduplicate_patterns is the list
\* of first occurrences in input order, that is, the result of the single pass;
\* the branch for more than 100 elements returns the same list.
C8_OrderOfFirstOccurrence ==
    pc # "start" => deduped = Ok(FirstOccurrences(patterns))

\* C9: the output holds exactly one element for every distinct non-empty
\* comparison key of the input, and that element is the unstripped text of the
\* earliest input element with that key.
C9_OneElementPerKey ==
    pc # "start" =>
        LET firsts == FirstOccurrenceIndexes(patterns)
            out == deduped.value
            outKey == [r \in 1..Len(out) |-> CleanPattern(out[r])]
        IN  /\ ~deduped.raised
            /\ Len(out) = Cardinality(KeysOf(patterns))
            /\ \A k \in KeysOf(patterns) :
                  \E r \in 1..Len(out) :
                     /\ outKey[r] = k
                     /\ \E i \in firsts : CleanPattern(patterns[i]) = k /\ out[r] = patterns[i]

\* Two elements with one key and different texts, the later one first in code
\* point order, in a list of each branch.
C9_Witness ==
    /\ pc = "deduplicated"
    /\ Len(patterns) > SmallListLimit
    /\ \E i, j \in 1..3 :
          /\ i < j
          /\ CleanPattern(patterns[i]) = CleanPattern(patterns[j])
          /\ CleanPattern(patterns[i]) # <<>>
          /\ StrLess(patterns[j], patterns[i])
          /\ deduped.value[Len(deduped.value)] = patterns[i]

\* C10: deduplicate(deduplicate(P)) = deduplicate(P).
C10_Idempotent ==
    pc = "deduplicated twice" => deduped2 = deduped

\* A list above the limit whose result is below it and differs from the list.
C10_Witness ==
    /\ pc = "deduplicated twice"
    /\ Len(patterns) > SmallListLimit
    /\ Len(deduped.value) <= SmallListLimit
    /\ Len(deduped.value) >= 2
    /\ deduped.value # FirstOccurrences(patterns)

(***************************************************************************)
(* Properties of match_pattern                                             *)
(***************************************************************************)

\* p is a directory entry: its normalized form ends with the separator.
IsDirEntry(p) == EndsWithSlash(NormalizePath(p))

\* Rule 1: p as a whole matches pat.
Rule1(pat, p) == fnmatch(NormalizePath(p), pat)

\* Rule 2: the basename of p matches pat.
Rule2(pat, p) == fnmatch(basename(NormalizePath(p)), pat)

\* Rule 3: p is a directory entry and its separator-stripped name, or that
\* name's basename, matches pat.
Rule3(pat, p) ==
    /\ IsDirEntry(p)
    /\ \/ fnmatch(DropLast(NormalizePath(p)), pat)
       \/ fnmatch(basename(DropLast(NormalizePath(p))), pat)

\* Rule 4 as claimed: pat ends with a separator, p is a directory entry and
\* one of the rules 1-3 holds for pat without its trailing separator.
Rule4Claimed(pat, p) ==
    /\ EndsWithSlash(pat)
    /\ IsDirEntry(p)
    /\ Rule1(DropLast(pat), p) \/ Rule2(DropLast(pat), p) \/ Rule3(DropLast(pat), p)

\* Rule 4 as the code has it: of the rules 1-3 only rule 3 is repeated.
Rule4(pat, p) == EndsWithSlash(pat) /\ Rule3(DropLast(pat), p)

\* C2 as claimed: match_pattern returns True whenever some path satisfies one
\* of the rules 1-4, rule 4 repeating the rules 1-3 for the stripped pattern;
\* it returns False for the empty path set.
C2_AnyRuleMatchesClaimed ==
    pc = "matched" =>
        /\ (\E p \in files : Rule1(pattern, p) \/ Rule2(pattern, p) \/ Rule3(pattern, p)
                                \/ Rule4Claimed(pattern, p)) => matched
        /\ files = {} => ~matched

\* C2 as amended: match_pattern returns True whenever some path satisfies rule
\* 1, 2 or 3, or the pattern ends with a separator and rule 3 holds for the
\* pattern without it; it returns False for the empty path set.
C2_AnyRuleMatches ==
    pc = "matched" =>
        /\ (\E p \in files : Rule1(pattern, p) \/ Rule2(pattern, p) \/ Rule3(pattern, p)
                                \/ Rule4(pattern, p)) => matched
        /\ files = {} => ~matched

\* A separator-free pattern matches a nested file by its basename alone.
C2_Witness ==
    /\ pc = "matched"
    /\ matched
    /\ \A i \in 1..Len(pattern) : pattern[i] # "/"
    /\ \E p \in files :
          /\ LastSlash(NormalizePath(p), Len(p)) > 0
          /\ ~IsDirEntry(p)
          /\ ~Rule1(pattern, p)
          /\ Rule2(pattern, p)
    /\ \A p \in files : ~Rule1(pattern, p) /\ ~Rule3(pattern, p)

\* C3 as claimed: for a pattern ending with a separator and a path set of file
\* entries only, none of which matches the pattern as written by the rules 1-2,
\* match_pattern returns False.
C3_DirectoryOnlyClaimed ==
    pc = "matched" /\ EndsWithSlash(pattern)
        /\ (\A p \in files : ~IsDirEntry(p) /\ ~Rule1(pattern, p) /\ ~Rule2(pattern, p))
    => ~matched

\* C3 as amended: for a pattern ending with a separator and a path set of file
\* entries only, match_pattern returns True exactly when some file matches the
\* pattern as written by the rules 1-2 or the basename of some file matches
\* the pattern without its trailing separator.
C3_DirectoryOnly ==
    pc = "matched" /\ EndsWithSlash(pattern) /\ (\A p \in files : ~IsDirEntry(p))
    => (matched <=> \E p \in files :
                       \/ Rule1(pattern, p)
                       \/ Rule2(pattern, p)
                       \/ fnmatch(basename(NormalizePath(p)), DropLast(pattern)))

\* A pattern ending with a separator matches a set of files by a basename.
C3_Witness ==
    /\ pc = "matched"
    /\ EndsWithSlash(pattern)
    /\ files # {}
    /\ \A p \in files : ~IsDirEntry(p)
    /\ matched

(***************************************************************************)
(* Properties of the merge                                                 *)
(***************************************************************************)

\* The file is a catalog: it parses and every 'patterns' it has is an array
\* of strings.
IsCatalog(f) ==
    /\ f.status = "ok"
    /\ \A i \in 1..Len(f.sections) :
          /\ f.sections[i].kind \in {"list", "none"}
          /\ \A j \in 1..Len(f.sections[i].patterns) : IsStr(f.sections[i].patterns[j])

\* The categories of a catalog: its sections that have a pattern list.
Categories(f) == SelectSeq(f.sections, LAMBDA x : x.kind = "list")

NamesOf(d) == [i \in 1..Len(d) |-> d[i].name]

NameSet(d) == {d[i].name : i \in 1..Len(d)}

\* The entry of dict d with the key n.
EntryOf(d, n) == d[CHOOSE i \in 1..Len(d) : d[i].name = n]

\* No two patterns of the list have the same comparison key.
NoDuplicateKeys(ps) ==
    \A i, j \in 1..Len(ps) : i < j => CleanPattern(ps[i]) # CleanPattern(ps[j])

\* The distributor's file is a catalog and the user's is one or is not used.
CatalogInputs ==
    /\ IsCatalog(distributor)
    /\ user.status = "ok" => IsCatalog(user)

UserCategories == IF user.status = "ok" THEN Categories(user) ELSE <<>>

SharedNames == NameSet(Categories(distributor)) \cap NameSet(UserCategories)

\* C4: for every category of both catalogs the merged list is the user's
\* patterns followed by the distributor's, reduced to first occurrences: the
\* user's first in the user's order, then the distributor's patterns whose key
\* the user's do not have, in the distributor's order.
C4_UserPatternsFirst ==
    pc # "start" /\ CatalogInputs =>
        /\ ~merged.raised
        /\ \A n \in SharedNames :
              EntryOf(merged.value, n).patterns =
                  FirstOccurrences(EntryOf(UserCategories, n).patterns
                                       \o EntryOf(Categories(distributor), n).patterns)

\* C5: without a user file the merge returns what parsing the distributor's
\* file returns: its categories in file order, each with its pattern sequence
\* unchanged.
C5_BaselinePreserved ==
    pc = "loaded" /\ user.status = "missing" =>
        /\ merged = loaded
        /\ distributor.status = "ok" =>
              merged = Ok(SelectSeq(distributor.sections, LAMBDA x : x.kind # "none"))

\* No user file, and a distributor category with a repeated key.
C5_Witness ==
    /\ pc = "loaded"
    /\ user.status = "missing"
    /\ ~merged.raised
    /\ Len(merged.value) >= 2
    /\ \E i \in 1..Len(merged.value) :
          merged.value[i].kind = "list" /\ ~NoDuplicateKeys(merged.value[i].patterns)

\* C6: the merged catalog holds every category of either catalog once: the
\* distributor's in the distributor's order, then those of the user alone in
\* the user's order.
C6_CategoryOrder ==
    pc # "start" /\ CatalogInputs =>
        /\ ~merged.raised
        /\ NamesOf(merged.value) =
              NamesOf(Categories(distributor))
                  \o NamesOf(SelectSeq(UserCategories,
                                 LAMBDA x : x.name \notin NameSet(Categories(distributor))))

\* The user's file starts with a category of its own and goes on with a shared
\* one, which is not the distributor's last.
C6_Witness ==
    /\ pc = "merged"
    /\ CatalogInputs
    /\ Len(UserCategories) >= 2
    /\ UserCategories[1].name \notin NameSet(Categories(distributor))
    /\ UserCategories[2].name \in NameSet(Categories(distributor))
    /\ Len(Categories(distributor)) >= 2
    /\ Categories(distributor)[1].name = UserCategories[2].name
    /\ Len(merged.value) = 3

\* C7 as claimed: no category of the merged catalog, shared or of one catalog
\* alone, has two patterns with the same comparison key.
C7_NoDuplicatesAnywhere ==
    pc # "start" /\ CatalogInputs =>
        /\ ~merged.raised
        /\ \A i \in 1..Len(merged.value) : NoDuplicateKeys(merged.value[i].patterns)

\* C7 as amended: a category of both catalogs has no two patterns with the
\* same comparison key; a category of one catalog alone has that catalog's
\* pattern list as it is.
C7_NoDuplicatesInShared ==
    pc # "start" /\ CatalogInputs =>
        /\ ~merged.raised
        /\ \A i \in 1..Len(merged.value) :
              LET n == merged.value[i].name
              IN  IF n \in SharedNames
                  THEN NoDuplicateKeys(merged.value[i].patterns)
                  ELSE IF n \in NameSet(Categories(distributor))
                       THEN merged.value[i] = EntryOf(Categories(distributor), n)
                       ELSE merged.value[i] = EntryOf(UserCategories, n)

\* A shared category whose two lists have a key in common and whose merged
\* list keeps two patterns.
C7_Witness ==
    /\ pc = "merged"
    /\ CatalogInputs
    /\ \E n \in SharedNames :
          /\ ~NoDuplicateKeys(EntryOf(UserCategories, n).patterns
                                  \o EntryOf(Categories(distributor), n).patterns)
          /\ Len(EntryOf(merged.value, n).patterns) >= 2

(***************************************************************************)
(* Properties of the analysis                                              *)
(***************************************************************************)

\* Every value of the dict of rules is a list of strings.
IsCatalogDict(d) ==
    \A i \in 1..Len(d) :
        /\ d[i].kind = "list"
        /\ \A j \in 1..Len(d[i].patterns) : IsStr(d[i].patterns[j])

\* The patterns of the list that match some scanned path, in the list's order.
MatchingPatterns(ps) == SelectSeq(ps, LAMBDA p : match_pattern(p, project_files))

\* C1: the analysis is the restriction of the merged catalog to the matching
\* patterns: a category is in the result iff one of its patterns matches the
\* scanned paths, its value is the matching patterns in the catalog's order,
\* and the categories of the result are in the catalog's order.
C1_RestrictionOfCatalog ==
    pc = "analyzed" /\ ~loaded.raised /\ IsCatalogDict(loaded.value) =>
        /\ ~analysis.raised
        /\ \A i \in 1..Len(loaded.value) :
              LET n == loaded.value[i].name
                  matching == MatchingPatterns(loaded.value[i].patterns)
              IN  /\ n \in NameSet(analysis.value) <=> matching # <<>>
                  /\ matching # <<>> => EntryOf(analysis.value, n).patterns = matching
        /\ NamesOf(analysis.value) =
              NamesOf(SelectSeq(loaded.value,
                          LAMBDA x : x.name \in NameSet(analysis.value)))

\* A catalog of three categories or more: one is left out, one keeps a part
\* of its patterns, and two are in the result.
C1_Witness ==
    /\ pc = "analyzed"
    /\ ~loaded.raised
    /\ IsCatalogDict(loaded.value)
    /\ Len(loaded.value) >= 3
    /\ Len(analysis.value) = 2
    /\ \E i \in 1..Len(loaded.value) :
          /\ MatchingPatterns(loaded.value[i].patterns) # <<>>
          /\ MatchingPatterns(loaded.value[i].patterns) # loaded.value[i].patterns

(***************************************************************************)
(* Properties of the merge: errors                                         *)
(***************************************************************************)

\* The distributor's rules alone: its sections with 'patterns', as they are.
BaselineOnly == Ok(SelectSeq(distributor.sections, LAMBDA x : x.kind # "none"))

\* C11: a user's file that is there and cannot be parsed does not make the
\* merge fail: with a readable distributor's file the merge returns the
\* distributor's rules alone, as it does without a user's file.
C11_MalformedUserIgnored ==
    pc # "start" /\ user.status = "malformed" /\ distributor.status = "ok" =>
        merged = BaselineOnly

\* The user's file cannot be parsed and the distributor's has patterns.
C11_Witness ==
    /\ pc = "merged"
    /\ user.status = "malformed"
    /\ distributor.status = "ok"
    /\ ~merged.raised
    /\ \E i \in 1..Len(merged.value) : Len(merged.value[i].patterns) >= 2

\* C12: when the distributor's file is missing or cannot be parsed the merge
\* raises, whatever the user's file is, and returns no rules.
C12_NoBaselineRaises ==
    pc # "start" /\ distributor.status # "ok" => merged = Raised

\* The distributor's file cannot be parsed and the user's file is a catalog
\* with patterns.
C12_Witness ==
    /\ pc = "merged"
    /\ distributor.status = "malformed"
    /\ IsCatalog(user)
    /\ \E i \in 1..Len(user.sections) : Len(user.sections[i].patterns) >= 2
    /\ merged.raised

\* The section has a 'patterns' that is no list of strings.
IllTyped(section) ==
    \/ section.kind = "str"
    \/ \E j \in 1..Len(section.patterns) : ~IsStr(section.patterns[j])

\* The sections the merge reads from the user's file.
UserSections == IF user.status = "ok" THEN user.sections ELSE <<>>

\* Both files give the category a string for 'patterns': the two strings are
\* joined and the merge goes on.
StringInBoth(n) ==
    /\ \E i \in 1..Len(distributor.sections) :
          distributor.sections[i].name = n /\ distributor.sections[i].kind = "str"
    /\ \E i \in 1..Len(UserSections) :
          UserSections[i].name = n /\ UserSections[i].kind = "str"

\* A statement of the merge or the validation of its result fails: a section
\* of either file is ill-typed, other than by a string in both files.
MergeOrValidationFails ==
    \E f \in {distributor.sections, UserSections} :
        \E i \in 1..Len(f) : IllTyped(f[i]) /\ ~StringInBoth(f[i].name)

\* C13: with a readable distributor's file the merge does not raise, and when
\* the merge or the validation fails it returns the distributor's rules
\* alone, with nothing of the user's file.
C13_FallbackToBaseline ==
    pc # "start" /\ distributor.status = "ok" =>
        /\ ~merged.raised
        /\ MergeOrValidationFails => merged = BaselineOnly

\* The user's file has a pattern of its own beside an element that is no
\* string, and the merge returns the distributor's patterns.
C13_Witness ==
    /\ pc = "merged"
    /\ IsCatalog(distributor)
    /\ user.status = "ok"
    /\ MergeOrValidationFails
    /\ \E i \in 1..Len(user.sections) :
          \E j, k \in 1..Len(user.sections[i].patterns) :
              /\ ~IsStr(user.sections[i].patterns[j])
              /\ IsStr(user.sections[i].patterns[k])
              /\ \A m \in 1..Len(merged.value) :
                    \A q \in 1..Len(merged.value[m].patterns) :
                        merged.value[m].patterns[q] # user.sections[i].patterns[k]
    /\ merged = BaselineOnly
    /\ merged.value # <<>>

(***************************************************************************)
(* Properties of the scan                                                  *)
(***************************************************************************)

\* C14: when the project root is missing or cannot be read the scan raises,
\* and so does the analysis, which returns no empty result.
C14_NoRootRaises ==
    pc = "analyzed" /\ ~loaded.raised /\ project_path # "dir" => analysis.raised

\* No directory on the way from the root to the entry is a symbolic link.
NotThroughLink(e) ==
    \A k \in 1..(Len(e.path) - 1) :
        \E d \in tree : d.path = SubSeq(e.path, 1, k) /\ d.type = "dir"

\* The path recorded for an entry: relative to the root, with a trailing '/'
\* for a directory.
RecordedPath(e) ==
    IF e.type = "dir" THEN JoinPath(e.path) \o <<"/">> ELSE JoinPath(e.path)

\* C15: the scan returns the root-relative paths of the files and directories
\* that are no symbolic links and are not below one, a directory with a
\* trailing '/' and a file without: all of them and nothing else.
C15_ScannedPaths ==
    pc = "analyzed" /\ ~loaded.raised /\ project_path = "dir" =>
        project_files = {RecordedPath(e) : e \in {x \in tree : x.type # "link" /\ NotThroughLink(x)}}

\* A link to a directory with an entry below it, beside a file and a
\* directory that are no links.
C15_Witness ==
    /\ pc = "analyzed"
    /\ ~loaded.raised
    /\ project_path = "dir"
    /\ \E l, e, f, d \in tree :
          /\ l.type = "link" /\ Len(e.path) = 2 /\ SubSeq(e.path, 1, 1) = l.path
          /\ f.type = "file" /\ Len(f.path) = 1
          /\ d.type = "dir"
    /\ Cardinality(project_files) = 2

\* C16: when the rules load and no pattern of theirs matches a scanned path,
\* the analysis returns the empty dict and does not raise.
C16_NothingMatchedIsEmpty ==
    pc = "analyzed" /\ ~loaded.raised
      /\ (IsCatalogDict(loaded.value) \/ project_files = {})
      /\ (\A i \in 1..Len(loaded.value) :
             loaded.value[i].kind = "list" =>
                 \A j \in 1..Len(loaded.value[i].patterns) :
                     ~(IsStr(loaded.value[i].patterns[j])
                          /\ match_pattern(loaded.value[i].patterns[j], project_files)))
    => analysis = Ok(<<>>)

\* Rules with patterns, a project with paths, and no pattern that matches.
C16_Witness ==
    /\ pc = "analyzed"
    /\ ~loaded.raised
    /\ IsCatalogDict(loaded.value)
    /\ Len(loaded.value) >= 2
    /\ \A i \in 1..Len(loaded.value) : loaded.value[i].patterns # <<>>
    /\ project_files # {}
    /\ analysis = Ok(<<>>)

(***************************************************************************)
(* Properties of the cache                                                 *)
(***************************************************************************)

\* The rules the files would give now, as content.
RulesOfFilesNow ==
    LET rules == ComputeRules(distributor, user).value
    IN  [i \in 1..Len(rules) |-> [name |-> rules[i].name, patterns |-> rules[i].patterns]]

\* C17: a call of merge_gitignore_rules less than CacheDuration after the
\* last computation parses nothing and returns the content then computed;
\* a call without a computation that recent computes again, and the time of
\* a computation that succeeded is the time the next calls are measured from.
C17_Freshness ==
    [][CallMergeRules =>
          IF computed_at # NoTime /\ now - computed_at < CacheDuration
          THEN /\ computations' = computations
               /\ ~result'.raised
               /\ Content(result'.value, heap') = computed
          ELSE /\ computations' = computations + 1
               /\ ~result'.raised =>
                     /\ computed_at' = now
                     /\ Content(result'.value, heap') = RulesOfFilesNow]_vars

\* A call served from the cache in the last minute of a window, the second
\* or a later one, after the files were edited.
C17_Witness ==
    /\ pc = "got"
    /\ hit
    /\ computations >= 2
    /\ now - computed_at = CacheDuration - 1
    /\ ~ComputeRules(distributor, user).raised
    /\ computed # RulesOfFilesNow

\* C19: after _clear_cache the cache holds no rules and no time, whatever it
\* held, and the next call of merge_gitignore_rules computes again.
C19_ClearEmpties ==
    /\ [](pc = "cleared" => merge_cache = <<>> /\ cache_timestamp = NoTime)
    /\ [][CallMergeRules /\ pc = "cleared" =>
             computations' = computations + 1 /\ ~hit']_vars

\* Two computations that succeeded within the first window, the second one
\* by the last call: the cache was cleared between them.
C19_Witness ==
    /\ pc = "got"
    /\ ~hit
    /\ ~result.raised
    /\ now < CacheDuration
    /\ Len(heap) >= 3
\* C18: what the caller does to a dict it was given does not reach the cache:
\* a call served from the cache returns the content that was computed.
C18_CallerCannotModifyCache ==
    pc = "got" /\ hit => Content(result.value, heap) = computed
\* C20: an analysis less than CacheDuration after the files were last parsed
\* takes the rules from the cache and parses nothing.
C20_AnalysisUsesCache ==
    [][AnalyzeProject /\ computed_at # NoTime /\ now - computed_at < CacheDuration =>
          computations' = computations]_vars

(***************************************************************************)
(* Properties of deduplicate_patterns: empty keys                          *)
(***************************************************************************)

\* C25: the result of deduplicate_patterns has no pattern with an empty
\* comparison key (a blank string, or a comment alone), in the branch for
\* short lists and in the branch for long ones; the empty list gives the
\* empty list.
C25_NoEmptyKey ==
    pc # "start" =>
        /\ ~deduped.raised
        /\ \A i \in 1..Len(deduped.value) : CleanPattern(deduped.value[i]) # <<>>
        /\ patterns = <<>> => deduped = Ok(<<>>)

\* A list for the long branch with a blank string and a comment alone.
C25_Witness ==
    /\ pc = "deduplicated"
    /\ Len(patterns) > SmallListLimit
    /\ \E i, j \in 1..Len(patterns) :
          /\ \A k \in 1..Len(patterns[i]) : patterns[i][k] = " "
          /\ patterns[j] # <<>> /\ patterns[j][1] = "#"
    /\ deduped.value # <<>>

(***************************************************************************)
(* Properties of the merge: the returned rules                             *)
(***************************************************************************)

\* C27: the rules that merge_gitignore_toml_files returns, from the merge or
\* from its except branch, have non-blank category names and lists of
\* strings as values, whatever the distributor's file holds.
C27_ResultIsValid ==
    pc # "start" /\ ~merged.raised =>
        \A i \in 1..Len(merged.value) :
            /\ ~IsBlank(merged.value[i].name)
            /\ merged.value[i].kind = "list"
            /\ \A j \in 1..Len(merged.value[i].patterns) : IsStr(merged.value[i].patterns[j])

\* C28 as claimed: for catalogs, merging the rules of a merge with the
\* distributor's file once more gives the same rules.
C28_RemergeIsStable ==
    pc = "merged again" /\ CatalogInputs => remerged = merged

\* No pattern list of the distributor's file has an empty or a repeated key,
\* and no list of the merge, joined with the distributor's list of the same
\* category, is longer than SmallListLimit.
RemergeInputs ==
    /\ CatalogInputs
    /\ \A i \in 1..Len(distributor.sections) :
          FirstOccurrences(distributor.sections[i].patterns) = distributor.sections[i].patterns
    /\ ~merged.raised
    /\ \A i \in 1..Len(merged.value) :
          \A j \in 1..Len(distributor.sections) :
              distributor.sections[j].name = merged.value[i].name =>
                  Len(merged.value[i].patterns) + Len(distributor.sections[j].patterns)
                      <= SmallListLimit

\* C28 as amended: the same, for a distributor's file without empty or
\* repeated keys and lists short enough for the single pass.
C28_RemergeIsStableWithoutDuplicates ==
    pc = "merged again" /\ RemergeInputs => remerged = merged

\* A shared category with patterns of both files and a category of the user
\* alone that repeats a key.
C28_Witness ==
    /\ pc = "merged again"
    /\ RemergeInputs
    /\ \E n \in SharedNames :
          /\ EntryOf(UserCategories, n).patterns # <<>>
          /\ EntryOf(Categories(distributor), n).patterns # <<>>
          /\ Len(EntryOf(merged.value, n).patterns) >= 2
    /\ remerged = merged

(***************************************************************************)
(* What changes the cache                                                  *)
(***************************************************************************)

\* The stored rules and their timestamp.
CacheSlot == <<Content(merge_cache, heap), cache_timestamp>>

\* C29: the stored rules and the timestamp change only in a call of
\* merge_gitignore_rules that computed and returned, or in _clear_cache; a
\* call that raises leaves both as they were; a call that computed and
\* returned leaves the returned rules in the cache, stamped with the present
\* time.
C29_SlotChanges ==
    /\ [][CacheSlot' # CacheSlot =>
              \/ ClearCache
              \/ CallMergeRules /\ ~hit' /\ ~result'.raised]_vars
    /\ [][CallMergeRules /\ result'.raised => CacheSlot' = CacheSlot]_vars
    /\ [][CallMergeRules /\ ~hit' /\ ~result'.raised =>
              /\ Content(merge_cache', heap') = Content(result'.value, heap')
              /\ Content(merge_cache', heap') = RulesOfFilesNow
              /\ cache_timestamp' = now']_vars

\* A call has raised while the cache held rules of an earlier call.
C29_Witness ==
    /\ pc = "got"
    /\ result.raised
    /\ merge_cache # <<>>
    /\ cache_timestamp # NoTime
    /\ ~is_cache_valid(cache_timestamp, now)


(***************************************************************************)
(* What the validation accepts                                             *)
(***************************************************************************)

\* Some key of the dict is not a str or is blank.
SomeNameIllFormed ==
    \E i \in 1..Len(data.items) :
        data.items[i].name = NonStrName \/ data.items[i].name \in {"", " "}

\* Some value of the dict is not a list.
SomeValueNotList == \E i \in 1..Len(data.items) : data.items[i].kind # "list"

\* Some element of some list is not a str.
SomePatternNotStr ==
    \E i \in 1..Len(data.items) :
        \E j \in 1..Len(data.items[i].patterns) : data.items[i].patterns[j] = NonStr

\* C26: validate_merged_toml_structure returns False exactly when the data is
\* not a dict, or a key is not a non-blank str, or a value is not a list, or
\* an element of a list is not a str; lists with blank strings are accepted.
C26_FalseIffIllFormed ==
    pc = "validated" =>
        (valid = FALSE <=>
            \/ data.type # "dict"
            \/ SomeNameIllFormed
            \/ SomeValueNotList
            \/ SomePatternNotStr)

\* A dict with a blank pattern and an empty pattern has been accepted.
C26_Witness ==
    /\ pc = "validated"
    /\ valid
    /\ \E i \in 1..Len(data.items) :
          \E j, k \in 1..Len(data.items[i].patterns) :
              data.items[i].patterns[j] = <<>> /\ data.items[i].patterns[k] = <<" ">>


(***************************************************************************)
(* What safe_write_file leaves on the disk                                 *)
(***************************************************************************)

\* C22: a call of safe_write_file that replaces the content of the file
\* leaves the content it replaced in the backup, and a call on a file that it
\* cannot read, or whose backup it cannot write, leaves the file as it was.
C22_BackupHoldsOld ==
    [][SafeWriteCall =>
          /\ target.exists /\ target'.content # target.content =>
                backup'.exists /\ backup'.content = target.content
          /\ target.exists /\ (~perms.read \/ ~CanWriteBackup(backup, perms)) =>
                target' = target]_vars

\* C23: safe_write_file returns True exactly when it wrote the file; a file
\* that is not there is created with the content given; on a file whose
\* content is the content given, up to the whitespace at its ends, it returns
\* False and leaves the file and the backup as they were.
C23_TrueIffWritten ==
    [][\A c \in Contents :
          SafeWrite(c) =>
              /\ returned' <=> written'
              /\ ~target.exists /\ perms.dir =>
                    returned' /\ target' = [exists |-> TRUE, content |-> c]
              /\ target.exists /\ Strip(target.content) = Strip(c) =>
                    ~returned' /\ target' = target /\ backup' = backup]_vars


(***************************************************************************)
(* The cache under concurrent handlers                                     *)
(***************************************************************************)

\* The handler has found the cache empty or expired and has stored its rules
\* in _merge_cache, inside a call that has not returned.
Populating(h) == handler[h].missed /\ handler[h].at = "update_timestamp"

\* C21: a call of merge_gitignore_rules that has found the timestamp valid
\* returns the rules that were stored with that timestamp, and no call
\* raises for a timestamp cleared meanwhile; two handlers that have both found
\* the cache empty do not both populate it.
C21_CheckAndReadAreAtomic ==
    /\ \A h \in Handlers :
          /\ handler[h].at = "returned" /\ handler[h].hit =>
                handler[h].ret = Ok(handler[h].expect)
          /\ handler[h].at = "returned" /\ ~handler[h].missed => ~handler[h].ret.raised
    /\ ~(Populating("h1") /\ Populating("h2"))


(***************************************************************************)
(* What the server prints                                                  *)
(***************************************************************************)

\* The line is an initialized notification.
IsInitialized(l) ==
    l.kind = "object" /\ l.method \in {"notifications/initialized", "initialized"}

\* What stdout has got in this step.
Printed == SubSeq(stdout', Len(stdout) + 1, Len(stdout'))

ConfigHasTools ==
    (IF config # "none" THEN config ELSE config_file) \in {"ok", "no_prompt", "bad_template"}

\* The catalog cannot be loaded, the project root cannot be scanned, or the
\* prompt cannot be rendered.
SynthesisFails ==
    \/ distributor.status # "ok"
    \/ project_path # "dir"
    \/ (IF config # "none" THEN config ELSE config_file) \in {"no_prompt", "bad_template"}

\* C24: with a configuration that has the tools, a call of generate_gitignore
\* is answered by a result and never by an error, and the text of the result
\* is the error text when the catalog cannot be loaded, the project root
\* cannot be scanned or the prompt cannot be rendered.
C24_AlwaysAResult ==
    [][ServeLine /\ ConfigHasTools =>
          /\ Len(Printed) = 1
          /\ Printed[1].kind = "result"
          /\ Printed[1].id = Head(stdin).id
          /\ SynthesisFails => Printed[1].text = "error block"]_vars

\* The first half of C24 alone: always a result.
C24_ResultNeverError ==
    [][ServeLine /\ ConfigHasTools =>
          Len(Printed) = 1 /\ Printed[1].kind = "result"]_vars

====
